---- MODULE Spec2Model ----
(***************************************************************************)
(* A model of metrique's snapshot writer (metriqued/etl_api.py) and of its *)
(* activity replay engine (metrique/cubes/sqldata/generic.py).             *)
(*                                                                         *)
(* Documents are functions from key names to values.  None is the integer  *)
(* NoneVal; timestamps, oids, ids and field values are positive integers.  *)
(* A cube (mongodb collection) is the sequence of its documents in natural *)
(* (insertion) order, which is the order find() streams them in.           *)
(***************************************************************************)
EXTENDS Integers, Sequences, FiniteSets, TLC

\* ------------------------------------------------------------------ bounds
MaxTime == 2      \* timestamps are 1..MaxTime
MaxBatch == 2     \* objects per save_objects call
MaxObjects == 3   \* objects saved per behaviour, over all calls

\* Python's None
NoneVal == -1

Oids == {1, 2}
Times == 1..MaxTime

\* ------------------------------------------------------------ dict helpers
\* d[k] = v
Put(d, k, v) == [kk \in (DOMAIN d) \cup {k} |-> IF kk = k THEN v ELSE d[kk]]

\* d.pop(k)
Pop(d, k) == [kk \in (DOMAIN d) \ {k} |-> d[kk]]

\* d.update(u)
Update(d, u) ==
    [kk \in (DOMAIN d) \cup (DOMAIN u) |-> IF kk \in DOMAIN u THEN u[kk] ELSE d[kk]]

\* the empty dict
EmptyDict == [kk \in {} |-> 0]

\* the keys of d that do not start with an underscore
NonUnderscore(d) == [kk \in (DOMAIN d) \ {"_id", "_oid", "_start", "_end", "_hash", "_mtime", "_corrupted"} |-> d[kk]]

\* ---------------------------------------------------------------- jsonhash
\* sha1(repr(frozenset({(jsonhash(k), jsonhash(v))}))): a digest of the set of
\* (key, value) pairs of the dict, insensitive to key order; sha1 is taken
\* to be collision free, so the digest is the set itself.
jsonhash(obj) == { <<k, obj[k]>> : k \in DOMAIN obj }

\* ------------------------------------------------------------ _prep_object
\* etl_api.py:96-126 for a dict that carries _oid and a numeric _start
_prep_object(obj, mtime) ==
    LET o1 == Put(obj, "_hash", jsonhash(obj))
        o2 == IF "_mtime" \in DOMAIN o1
              THEN Put(Pop(o1, "_mtime"), "_start", o1["_mtime"])
              ELSE o1
    IN  IF "_start" \notin DOMAIN o2 THEN Put(o2, "_start", mtime) ELSE o2

\* (mutant) only the missing _oid is an error
_prep_object_raises_oid(obj, mtime) == "_oid" \notin DOMAIN obj

\* _prep_object's errors (etl_api.py:103-124): no _oid, or a _start that is
\* not a number once _mtime and the default are applied (None, for one)
_prep_object_raises(obj, mtime) ==
    \/ "_oid" \notin DOMAIN obj
    \/ _prep_object(obj, mtime)["_start"] = NoneVal

\* --------------------------------------------------------------- the state
VARIABLES
    store,       \* the cube: sequence of stored documents, natural order
    next_id,     \* the next value new_oid() mints
    pc,          \* where save_objects is
    objects,     \* save_objects: the prepared objects of the call
    idx,         \* position of the running loop (no_snap objects, time_docs)
    batch,       \* _save_no_snapshot: the documents waiting for insert
    docmap,      \* _save_and_snapshot: _oid -> pending document
    time_docs,   \* _save_and_snapshot: the live versions find() returned
    writes,      \* the store operations of the running call, in order
    store0,      \* the cube as it was when the running call began
    saved,       \* number of objects handed to save_objects so far
    in_order,    \* SpecSnap: no object so far started before its live version
    prev         \* SpecResave: the prepared objects of the previous call

swvars == <<store, next_id, pc, objects, idx, batch, docmap, time_docs, writes, store0, saved,
            in_order, prev>>

\* the state of the activity replay (generic.py)
VARIABLES
    ar_time_doc,     \* the current-value object handed to _activity_import_doc
    activities,      \* its change-log: a list of <<when, field, removed, added>>
    creation_field,  \* config 'cfield' ("" when not configured)
    ar_pc,           \* where _activity_import_doc is
    acts,            \* the filtered, sorted activities the loop has yet to do
    batch_updates,   \* the version stack; batch_updates[1] is ar_time_doc itself
    incon,           \* the inconsistency log
    result,          \* what the running or last call returned
    runs,            \* number of _activity_import_doc calls on ar_time_doc
    doc0,            \* ar_time_doc as it was when the running call began
    result1,         \* what the first call returned, and how many records it logged
    last_step        \* the entry the loop did last, and the state before it

arvars == <<ar_time_doc, activities, creation_field, ar_pc, acts, batch_updates, incon, result,
            runs, doc0, result1, last_step>>

\* the state of the oid diff (generic.py)
VARIABLES
    od_source,       \* the rows of the source table: [oid, mtime]
    od_last_id,      \* get_last_field('_oid'): the greatest _oid of the cube, or None
    od_last_start,   \* get_last_field('_start'): the greatest _start of the cube, or None
    od_config,       \* config: force, delta_new_ids, delta_mtime
    od_args,         \* the arguments: force, last_update
    od_pc,           \* "off", "ready" or the function that returned
    od_result        \* the list returned

odvars == <<od_source, od_last_id, od_last_start, od_config, od_args, od_pc, od_result>>

\* the state of the extraction (generic.py get_objects, get_full_history)
VARIABLES
    go_oids,         \* the oid list _delta_force resolved
    go_config,       \* config: workers, worker_batch_size, batch_size, retries
    go_tasks,        \* the calls of the per-batch loop: one, or one per worker batch
    go_pc,           \* "off", "ready", "running", "returned" or "raised"
    go_result        \* the list get_objects returned

govars == <<go_oids, go_config, go_tasks, go_pc, go_result>>

\* the state of the normalizer (generic.py _prep_objects)
VARIABLES
    nz_fields,       \* self.fields: for each field its 'container' and 'type'
    nz_row,          \* the raw row _load_sql gave
    nz_pc,           \* "off", "ready", "once", "twice" or "error"
    nz_once,         \* the row after _prep_objects
    nz_twice         \* the row after _prep_objects on the normalized row

nzvars == <<nz_fields, nz_row, nz_pc, nz_once, nz_twice>>

\* the state of the hashing of two objects (etl_api.py jsonhash)
VARIABLES
    hs_a,            \* an object, as the list of its (key, value) items
    hs_b,            \* another object
    hs_hashes        \* << >>, or the _hash of each once stamped

hsvars == <<hs_a, hs_b, hs_hashes>>

\* the state of an extraction whose workers save what they fetch
\* (generic.py get_objects with flush, etl_api.py _save_and_snapshot)
VARIABLES
    wk_in,           \* the oids to extract, the batch sizes, the cube before
    wk_store,        \* the cube the workers write to
    wk_next_id,      \* the next fresh _id of that cube
    wk_workers,      \* for each worker: its oids, the batches it has yet to
                     \* save, and where its _save_and_snapshot stands
    wk_pc            \* "off", "ready", "running" or "done"

wkvars == <<wk_in, wk_store, wk_next_id, wk_workers, wk_pc>>

vars == <<swvars, arvars, odvars, govars, nzvars, hsvars, wkvars>>

\* what the actions of each component leave alone
not_sw == <<arvars, odvars, govars, nzvars, hsvars, wkvars>>
not_ar == <<swvars, odvars, govars, nzvars, hsvars, wkvars>>
not_od == <<swvars, arvars, govars, nzvars, hsvars, wkvars>>
not_go == <<swvars, arvars, odvars, nzvars, hsvars, wkvars>>
not_nz == <<swvars, arvars, odvars, govars, hsvars, wkvars>>
not_hs == <<swvars, arvars, odvars, govars, nzvars, wkvars>>
not_wk == <<swvars, arvars, odvars, govars, nzvars, hsvars>>

\* --------------------------------------------------------- store operations
\* (mutant) the find forgets '_end': None and returns closed versions too
find_live_all(cube, keys) ==
    SelectSeq(cube, LAMBDA d : "_oid" \in DOMAIN d /\ d["_oid"] \in keys)

\* _cube.find({'_oid': {'$in': keys}, '_end': None}); a missing _end matches
\* None as well
find_live(cube, keys) ==
    SelectSeq(cube, LAMBDA d : "_oid" \in DOMAIN d /\ d["_oid"] \in keys
                               /\ ("_end" \notin DOMAIN d \/ d["_end"] = NoneVal))

\* (mutant) the update that closes the old version is lost
update_end_lost(cube, id, _start) == cube

\* (mutant) the update sets _start along with _end
update_end_both(cube, id, _start) ==
    [j \in 1..Len(cube) |->
        IF cube[j]["_id"] = id THEN Put(Put(cube[j], "_end", _start), "_start", _start)
        ELSE cube[j]]

\* _cube.update({'_id': id}, {'$set': {'_end': _start}}, upsert=True)
update_end(cube, id, _start) ==
    IF \E j \in 1..Len(cube) : cube[j]["_id"] = id
    THEN [j \in 1..Len(cube) |->
             IF cube[j]["_id"] = id /\ \A h \in 1..(j - 1) : cube[h]["_id"] # id
             THEN Put(cube[j], "_end", _start)
             ELSE cube[j]]
    ELSE Append(cube, [_id |-> id, _end |-> _start])

\* _cube.save(obj) for an obj that has _id: replace that document, or insert
save(cube, obj) ==
    IF \E j \in 1..Len(cube) : cube[j]["_id"] = obj["_id"]
    THEN [j \in 1..Len(cube) |-> IF cube[j]["_id"] = obj["_id"] THEN obj ELSE cube[j]]
    ELSE Append(cube, obj)

\* _bulk_insert(_cube, docs, size): insert docs[i:i+size] for i = 0, size, ...
RECURSIVE _bulk_insert(_, _, _)
_bulk_insert(cube, docs, size) ==
    IF docs = << >> THEN cube
    ELSE LET n == IF Len(docs) < size THEN Len(docs) ELSE size
         IN  _bulk_insert(cube \o SubSeq(docs, 1, n), SubSeq(docs, n + 1, Len(docs)), size)

\* the chunk size _bulk_insert defaults to
BulkSize == 1000

\* ------------------------------------------------------- _save_and_snapshot
\* docmap = dict([(doc['_oid'], doc) for doc in objects]): the last object of
\* an _oid wins
build_docmap(objs) ==
    [o \in {objs[j]["_oid"] : j \in 1..Len(objs)} |->
        objs[CHOOSE j \in 1..Len(objs) :
                /\ objs[j]["_oid"] = o
                /\ \A h \in (j + 1)..Len(objs) : objs[h]["_oid"] # o]]

\* any(item not in time_doc_items for item in doc.iteritems())
doc_changed(doc, time_doc) ==
    \E k \in DOMAIN doc : k \notin DOMAIN time_doc \/ time_doc[k] # doc[k]

\* (mutant) the new version takes nothing from the old one
merge_doc_bare(time_doc, doc, _start) == Put(doc, "_start", _start)

\* (mutant) the overlay is reversed: doc.update(time_doc), old values win
merge_doc_rev(time_doc, doc, _start) == Put(Update(doc, time_doc), "_start", _start)

\* time_doc.update(doc); time_doc['_start'] = _start
merge_doc(time_doc, doc, _start) == Put(Update(time_doc, doc), "_start", _start)

\* docmap.values(), by ascending _oid
RECURSIVE docmap_values(_)
docmap_values(dm) ==
    IF DOMAIN dm = {} THEN << >>
    ELSE LET o == CHOOSE m \in DOMAIN dm : \A n \in DOMAIN dm : m <= n
         IN  <<dm[o]>> \o docmap_values([n \in (DOMAIN dm) \ {o} |-> dm[n]])

\* [doc.update({'_id': new_oid(), '_end': None}) for doc in docmap.values()]
stamp_new(docs, first_id) ==
    [j \in 1..Len(docs) |-> Update(docs[j], [_id |-> first_id + j - 1, _end |-> NoneVal])]

\* ------------------------------------------------------------ _save_objects
no_snap_of(objs) == SelectSeq(objs, LAMBDA o : "_end" \in DOMAIN o)
\* (mutant) every object goes to the snapshot path too
to_snap_of_all(objs) == objs

to_snap_of(objs) == SelectSeq(objs, LAMBDA o : "_end" \notin DOMAIN o)

\* ------------------------------------------------------------------ inputs
\* the client's field values: x alone, or x and y
FieldMaps == {[x |-> 1], [x |-> 2, y |-> 1]}

\* objects for the snapshot path (no _end, no _id): the client gives no
\* time, or _start, or (for one shape) _mtime
SnapObjects ==
    {Update(Update([_oid |-> o], f), s) :
        o \in Oids, f \in FieldMaps, s \in {EmptyDict} \cup {[_start |-> t] : t \in Times}}
    \cup {[_oid |-> 1, x |-> 1, _mtime |-> MaxTime]}

\* objects for the no-snapshot path: _end given (None or a time), _id optional
NoSnapObjects ==
    {[_oid |-> 1, x |-> 1, _start |-> 1, _end |-> NoneVal],
     [_oid |-> 1, x |-> 1, _start |-> 1, _end |-> MaxTime],
     [_oid |-> 1, x |-> 2, _start |-> 1, _end |-> NoneVal, _id |-> 1]}

Inputs == SnapObjects \cup NoSnapObjects


\* -------------------------------------------------------------------- Init
\* no replay is running
ARIdle ==
    /\ ar_time_doc = EmptyDict
    /\ activities = << >>
    /\ creation_field = ""
    /\ ar_pc = "off"
    /\ acts = << >>
    /\ batch_updates = << >>
    /\ incon = << >>
    /\ result = << >>
    /\ runs = 0
    /\ doc0 = EmptyDict
    /\ result1 = [versions |-> << >>, logged |-> 0]
    /\ last_step = << >>

\* no oid diff is asked for
ODIdle ==
    /\ od_source = {}
    /\ od_last_id = NoneVal
    /\ od_last_start = NoneVal
    /\ od_config = [force |-> <<"falsy", 0>>, delta_new_ids |-> TRUE, delta_mtime |-> FALSE]
    /\ od_args = [force |-> <<"falsy", 0>>, last_update |-> NoneVal]
    /\ od_pc = "off"
    /\ od_result = << >>

\* no extraction is running
GOIdle ==
    /\ go_oids = << >>
    /\ go_config = [workers |-> 1, worker_batch_size |-> 1, batch_size |-> 1, retries |-> NoneVal,
                    sql_ok |-> TRUE]
    /\ go_tasks = << >>
    /\ go_pc = "off"
    /\ go_result = << >>

\* no row is being normalized
NZIdle ==
    /\ nz_fields = EmptyDict
    /\ nz_row = EmptyDict
    /\ nz_pc = "off"
    /\ nz_once = EmptyDict
    /\ nz_twice = EmptyDict

\* no object is being hashed
HSIdle ==
    /\ hs_a = << >>
    /\ hs_b = << >>
    /\ hs_hashes = << >>

\* no worker is saving
WKIdle ==
    /\ wk_in = [oids |-> << >>, x |-> << >>, worker_batch_size |-> 1, batch_size |-> 1,
                store |-> << >>]
    /\ wk_store = << >>
    /\ wk_next_id = 1
    /\ wk_workers = << >>
    /\ wk_pc = "off"

\* the cube is empty and no call is running
SWIdle ==
    /\ store = << >>
    /\ next_id = 1
    /\ pc = "idle"
    /\ objects = << >>
    /\ idx = 0
    /\ batch = << >>
    /\ docmap = EmptyDict
    /\ time_docs = << >>
    /\ writes = << >>
    /\ store0 = << >>
    /\ saved = 0
    /\ in_order = TRUE
    /\ prev = << >>

Init == SWIdle /\ ARIdle /\ ODIdle /\ GOIdle /\ NZIdle /\ HSIdle /\ WKIdle

\* ----------------------------------------------------------------- actions
\* save_objects (etl_api.py:255-281): prepare every object, then
\* _save_objects picks the first path that has work
\* (a client sends an _id only if it read it from the cube: new_oid() never
\* mints an _id a client made up)
save_objects(objs, mtime) ==
    /\ pc = "idle"
    /\ saved + Len(objs) <= MaxObjects
    /\ \A j \in 1..Len(objs) :
          "_id" \in DOMAIN objs[j] => \E h \in 1..Len(store) : store[h]["_id"] = objs[j]["_id"]
    /\ IF \E j \in 1..Len(objs) : _prep_object_raises(objs[j], mtime)
       THEN /\ objects' = objs
            /\ pc' = "raised"
       ELSE /\ objects' = [j \in 1..Len(objs) |-> _prep_object(objs[j], mtime)]
            /\ pc' = IF Len(no_snap_of(objects')) > 0 THEN "no_snap" ELSE "snap_find"
    /\ idx' = 1
    /\ batch' = << >>
    /\ docmap' = EmptyDict
    /\ time_docs' = << >>
    /\ writes' = << >>
    /\ store0' = store
    /\ saved' = saved + Len(objs)
    /\ UNCHANGED <<store, next_id>>
    /\ UNCHANGED not_sw

\* _save_no_snapshot, one object of the loop (etl_api.py:217-222)
NoSnapLoop ==
    /\ pc = "no_snap"
    /\ idx <= Len(no_snap_of(objects))
    /\ LET obj == no_snap_of(objects)[idx]
       IN  IF "_id" \in DOMAIN obj
           THEN /\ store' = save(store, obj)
                /\ writes' = Append(writes, [op |-> "save", ids |-> {obj["_id"]}])
                /\ UNCHANGED <<batch, next_id>>
           ELSE /\ batch' = Append(batch, Put(obj, "_id", next_id))
                /\ next_id' = next_id + 1
                /\ UNCHANGED <<store, writes>>
    /\ idx' = idx + 1
    /\ UNCHANGED <<pc, objects, docmap, time_docs, store0, saved, in_order, prev>>
    /\ UNCHANGED not_sw

\* _save_no_snapshot, the insert after the loop (etl_api.py:223-224), then
\* _save_objects goes on to the snapshot path if it has work
NoSnapInsert ==
    /\ pc = "no_snap"
    /\ idx > Len(no_snap_of(objects))
    /\ IF batch # << >>
       THEN /\ store' = store \o batch
            /\ writes' = Append(writes, [op |-> "insert",
                                         ids |-> {batch[j]["_id"] : j \in 1..Len(batch)}])
       ELSE UNCHANGED <<store, writes>>
    /\ pc' = IF Len(to_snap_of(objects)) > 0 THEN "snap_find" ELSE "done"
    /\ idx' = 1
    /\ UNCHANGED <<next_id, objects, batch, docmap, time_docs, store0, saved, in_order, prev>>
    /\ UNCHANGED not_sw

\* _save_and_snapshot up to the find (etl_api.py:156-159)
SnapFind ==
    /\ pc = "snap_find"
    /\ docmap' = build_docmap(to_snap_of(objects))
    /\ time_docs' = find_live(store, DOMAIN docmap')
    /\ idx' = 1
    /\ pc' = "snap_loop"
    /\ UNCHANGED <<store, next_id, objects, batch, writes, store0, saved, in_order, prev>>
    /\ UNCHANGED not_sw

\* _save_and_snapshot, one time_doc of the loop (etl_api.py:161-185)
SnapLoop ==
    /\ pc = "snap_loop"
    /\ idx <= Len(time_docs)
    /\ LET time_doc == time_docs[idx]
           _oid == time_doc["_oid"]
       IN  IF _oid \notin DOMAIN docmap
           THEN UNCHANGED <<store, docmap, writes>>
           ELSE LET _start == docmap[_oid]["_start"]
                    doc == Pop(docmap[_oid], "_start")
                IN  IF doc_changed(doc, time_doc)
                    THEN /\ store' = update_end(store, time_doc["_id"], _start)
                         /\ writes' = Append(writes, [op |-> "update",
                                                      ids |-> {time_doc["_id"]}])
                         /\ docmap' = [docmap EXCEPT ![_oid] = merge_doc(time_doc, doc, _start)]
                    ELSE /\ docmap' = [o \in (DOMAIN docmap) \ {_oid} |-> docmap[o]]
                         /\ UNCHANGED <<store, writes>>
    /\ idx' = idx + 1
    /\ UNCHANGED <<next_id, pc, objects, batch, time_docs, store0, saved, in_order, prev>>
    /\ UNCHANGED not_sw

\* _save_and_snapshot after the loop (etl_api.py:187-190)
SnapInsert ==
    /\ pc = "snap_loop"
    /\ idx > Len(time_docs)
    /\ LET docs == stamp_new(docmap_values(docmap), next_id)
       IN  /\ next_id' = next_id + Len(docs)
           /\ IF DOMAIN docmap # {}
              THEN /\ store' = _bulk_insert(store, docs, BulkSize)
                   /\ writes' = Append(writes, [op |-> "bulk_insert",
                                                ids |-> {docs[j]["_id"] : j \in 1..Len(docs)}])
              ELSE UNCHANGED <<store, writes>>
    /\ pc' = "done"
    /\ UNCHANGED <<objects, idx, batch, docmap, time_docs, store0, saved, in_order, prev>>
    /\ UNCHANGED not_sw

\* save_objects returns (etl_api.py:283-294)
Return ==
    /\ pc = "done"
    /\ pc' = "idle"
    /\ objects' = << >>
    /\ idx' = 0
    /\ batch' = << >>
    /\ docmap' = EmptyDict
    /\ time_docs' = << >>
    /\ writes' = << >>
    /\ store0' = << >>
    /\ UNCHANGED <<store, next_id, saved>>
    /\ UNCHANGED not_sw

\* save_objects fails in preparation (etl_api.py:279): the error leaves the
\* call before _save_objects is reached
save_objects_raise ==
    /\ pc = "raised"
    /\ pc' = "idle"
    /\ objects' = << >>
    /\ idx' = 0
    /\ store0' = << >>
    /\ UNCHANGED <<store, next_id, batch, docmap, time_docs, writes, saved, in_order, prev>>
    /\ UNCHANGED not_sw

\* the mtime values that make a difference to the batch: save_objects reads
\* mtime only for an object that carries neither _start nor _mtime
Mtimes(objs) ==
    IF \E j \in 1..Len(objs) : {"_start", "_mtime"} \cap DOMAIN objs[j] = {}
    THEN Times
    ELSE {1}

\* every object of the prepared batch starts no earlier than the live
\* versions of its _oid
InOrder(cube, objs) ==
    \A j \in 1..Len(objs) :
        \A h \in 1..Len(cube) :
            (cube[h]["_oid"] = objs[j]["_oid"] /\ cube[h]["_end"] = NoneVal)
                => objs[j]["_start"] >= cube[h]["_start"]

\* the cube is written through both paths
Next ==
    \/ \E n \in 1..MaxBatch :
          /\ saved + n <= MaxObjects
          /\ \E objs \in [1..n -> Inputs] : \E mtime \in Mtimes(objs) :
                save_objects(objs, mtime) /\ UNCHANGED <<in_order, prev>>
    \/ NoSnapLoop
    \/ NoSnapInsert
    \/ SnapFind
    \/ SnapLoop
    \/ SnapInsert
    \/ Return /\ UNCHANGED <<in_order, prev>>

Spec == Init /\ [][Next]_vars

\* the cube is written through the snapshot path alone
NextSnap ==
    \/ \E n \in 1..MaxBatch :
          /\ saved + n <= MaxObjects
          /\ \E objs \in [1..n -> SnapObjects] : \E mtime \in Mtimes(objs) :
                /\ save_objects(objs, mtime)
                /\ in_order' = (in_order /\ InOrder(store, objects'))
                /\ UNCHANGED prev
    \/ SnapFind
    \/ SnapLoop
    \/ SnapInsert
    \/ Return /\ UNCHANGED <<in_order, prev>>

SpecSnap == Init /\ [][NextSnap]_vars

\* both paths, and a call remembers the batch of the call before it when that
\* was a snapshot batch which can still be saved again within MaxObjects
NextResave ==
    \/ \E n \in 1..MaxBatch :
          /\ saved + n <= MaxObjects
          /\ \E objs \in [1..n -> Inputs] : \E mtime \in Mtimes(objs) :
                save_objects(objs, mtime) /\ UNCHANGED <<in_order, prev>>
    \/ NoSnapLoop
    \/ NoSnapInsert
    \/ SnapFind
    \/ SnapLoop
    \/ SnapInsert
    \/ /\ Return
       /\ prev' = IF Len(no_snap_of(objects)) = 0 /\ saved + Len(objects) <= MaxObjects
                  THEN objects
                  ELSE << >>
       /\ UNCHANGED in_order

SpecResave == Init /\ [][NextResave]_vars

\* ======================================================================
\* Properties of the snapshot writer
\* ======================================================================
IsLive(d) == d["_end"] = NoneVal

\* positions of the stored versions of _oid o
VersionsOf(cube, o) == {j \in 1..Len(cube) : "_oid" \in DOMAIN cube[j] /\ cube[j]["_oid"] = o}

StoredOids(cube) == {cube[j]["_oid"] : j \in 1..Len(cube)}

\* interval a lies wholly before interval b
Before(a, b) == ~IsLive(a) /\ a["_end"] <= b["_start"]

\* the versions of o: one live, intervals disjoint, each closed one followed
\* by a version that starts where it ends
GoodTimeline(cube, o) ==
    LET V == VersionsOf(cube, o)
    IN  /\ Cardinality({j \in V : IsLive(cube[j])}) = 1
        /\ \A i, j \in V : i # j => Before(cube[i], cube[j]) \/ Before(cube[j], cube[i])
        /\ \A i \in V : ~IsLive(cube[i]) =>
              /\ cube[i]["_start"] <= cube[i]["_end"]
              /\ \E j \in V : cube[j]["_start"] = cube[i]["_end"]

\* positions in time_docs of the live versions fetched for o
LiveFetched(o) == {j \in 1..Len(time_docs) : time_docs[j]["_oid"] = o}

FirstFetched(o) == CHOOSE j \in LiveFetched(o) : \A h \in LiveFetched(o) : j <= h

\* positions in writes of the operations named op
Events(op) == {j \in 1..Len(writes) : writes[j]["op"] = op}

\* the _ids the running snapshot call has inserted
NewIds == UNION {writes[j]["ids"] : j \in Events("bulk_insert")}

\* positions of the versions of o the running snapshot call has inserted
NewVersions(o) == {j \in VersionsOf(store, o) : store[j]["_id"] \in NewIds}

\* the running call has written _end on the document with this _id
Closed(id) == \E j \in Events("update") : writes[j]["ids"] = {id}

\* some non-underscore field of ob is missing from t or differs in t
FieldDiffers(ob, t) ==
    \E k \in DOMAIN NonUnderscore(ob) : k \notin DOMAIN t \/ t[k] # ob[k]

\* the snapshot objects of the running call
ToSnap == to_snap_of(objects)

\* C1 as stated: after any sequence of ingests through either path, with any
\* _start values, every _oid has disjoint, contiguous intervals and exactly
\* one live version.
C1_AnyIngest ==
    pc \in {"idle", "done"} => \A o \in StoredOids(store) : GoodTimeline(store, o)

\* C1 as amended: after any sequence of ingests through the snapshot path
\* alone, in which no object's _start is earlier than the _start of the live
\* version of its _oid, every _oid has disjoint, contiguous intervals and
\* exactly one live version.
C1_SnapshotInOrder ==
    (pc \in {"idle", "done"} /\ in_order) =>
        \A o \in StoredOids(store) : GoodTimeline(store, o)

\* an _oid with a closed version of positive length and its live successor
C1_Witness ==
    /\ pc = "idle"
    /\ in_order
    /\ \E i, j \in 1..Len(store) :
          /\ store[i]["_oid"] = store[j]["_oid"]
          /\ ~IsLive(store[i])
          /\ store[i]["_start"] < store[i]["_end"]
          /\ store[j]["_start"] = store[i]["_end"]
          /\ IsLive(store[j])

\* what C2 promises for object ob and the one live version t of its _oid
SnapshotPost(ob, t) ==
    /\ \E j \in 1..Len(store) : store[j] = Put(t, "_end", ob["_start"])
    /\ Cardinality(NewVersions(ob["_oid"])) = 1
    /\ \A j \in NewVersions(ob["_oid"]) :
          LET n == store[j]
          IN  /\ \A h \in 1..Len(store) : h # j => store[h]["_id"] # n["_id"]
              /\ n["_id"] \notin {store0[h]["_id"] : h \in 1..Len(store0)}
              /\ n["_start"] = ob["_start"]
              /\ n["_end"] = NoneVal
              /\ DOMAIN n = (DOMAIN ob) \cup (DOMAIN t) \cup {"_id", "_end"}
              /\ \A k \in (DOMAIN ob) \ {"_start"} : n[k] = ob[k]
              /\ \A k \in (DOMAIN t) \ ((DOMAIN ob) \cup {"_id", "_end", "_start"}) :
                    n[k] = t[k]

\* C2 as stated: every snapshot object whose _oid has exactly one live
\* version t, and which differs from t in a field, closes t at its own
\* _start and adds one merged new version.
C2_EveryObject ==
    pc = "done" =>
        \A j \in 1..Len(ToSnap) :
            LET ob == ToSnap[j]
            IN  \A i \in LiveFetched(ob["_oid"]) :
                    (Cardinality(LiveFetched(ob["_oid"])) = 1
                     /\ FieldDiffers(ob, time_docs[i]))
                        => SnapshotPost(ob, time_docs[i])

\* C2 as amended: the same for a snapshot object that is the last of its
\* _oid in the batch (an earlier object of the same _oid is dropped).
C2_LastOfOid ==
    pc = "done" =>
        \A j \in 1..Len(ToSnap) :
            LET ob == ToSnap[j]
            IN  \A i \in LiveFetched(ob["_oid"]) :
                    (Cardinality(LiveFetched(ob["_oid"])) = 1
                     /\ FieldDiffers(ob, time_docs[i])
                     /\ \A h \in (j + 1)..Len(ToSnap) : ToSnap[h]["_oid"] # ob["_oid"])
                        => SnapshotPost(ob, time_docs[i])

\* a partial update: the live version has a field the object does not carry
C2_Witness ==
    /\ pc = "done"
    /\ \E j \in 1..Len(ToSnap) :
          /\ Cardinality(LiveFetched(ToSnap[j]["_oid"])) = 1
          /\ \A h \in (j + 1)..Len(ToSnap) : ToSnap[h]["_oid"] # ToSnap[j]["_oid"]
          /\ \E i \in LiveFetched(ToSnap[j]["_oid"]) :
                /\ FieldDiffers(ToSnap[j], time_docs[i])
                /\ "y" \in DOMAIN time_docs[i]
                /\ "y" \notin DOMAIN ToSnap[j]
                /\ SnapshotPost(ToSnap[j], time_docs[i])

\* C3 as stated: an object whose non-underscore fields equal those of the
\* live version of its _oid, whatever its _start, closes nothing and inserts
\* nothing.
C3_SameFieldsNoWrite ==
    pc = "done" =>
        \A j \in 1..Len(ToSnap) :
            LET ob == ToSnap[j]
            IN  \A i \in LiveFetched(ob["_oid"]) :
                    (Cardinality(LiveFetched(ob["_oid"])) = 1
                     /\ \A h \in (j + 1)..Len(ToSnap) : ToSnap[h]["_oid"] # ob["_oid"]
                     /\ NonUnderscore(ob) = NonUnderscore(time_docs[i]))
                        => (~Closed(time_docs[i]["_id"]) /\ NewVersions(ob["_oid"]) = {})

\* C4: a batch of snapshot objects saved again right after it was saved
\* (same field values, same _start per object) writes nothing: the cube
\* after the second save is the cube after the first.
C4_ResaveWritesNothing ==
    (pc = "done" /\ objects = prev /\ Len(no_snap_of(objects)) = 0) =>
        (store = store0 /\ writes = << >>)

\* the batch saved again had made the first save write a new version
C4_Witness ==
    /\ pc = "done"
    /\ objects = prev
    /\ Len(no_snap_of(objects)) = 0
    /\ \E j \in 2..Len(store) : \E h \in 1..Len(objects) :
          /\ store[j]["_oid"] = objects[h]["_oid"]
          /\ store[j]["_hash"] = objects[h]["_hash"]
          /\ ~IsLive(store[j - 1])

\* C5 as stated: every stored version has _hash = jsonhash of exactly its
\* non-underscore fields.
C5_HashOfFields ==
    \A j \in 1..Len(store) :
        "_hash" \in DOMAIN store[j] => store[j]["_hash"] = jsonhash(NonUnderscore(store[j]))

\* C6: in every state a store observer can see, a new version inserted by
\* the running snapshot call is in the cube only if the live version it
\* replaces is already closed, and the close was written before the insert.
C6_CloseBeforeInsert ==
    \A o \in Oids :
        (NewVersions(o) # {} /\ LiveFetched(o) # {}) =>
            LET t == time_docs[FirstFetched(o)]
            IN  /\ \A j \in 1..Len(store) : store[j]["_id"] = t["_id"] => ~IsLive(store[j])
                /\ \E u \in Events("update") : \E b \in Events("bulk_insert") :
                      /\ u < b
                      /\ writes[u]["ids"] = {t["_id"]}
                      /\ \E j \in NewVersions(o) : store[j]["_id"] \in writes[b]["ids"]

\* the old version is closed and the new one is not inserted yet; later both
C6_WitnessBetween ==
    /\ pc = "snap_loop"
    /\ Events("update") # {}
    /\ Events("bulk_insert") = {}

C6_Witness ==
    /\ pc = "done"
    /\ \E o \in Oids : NewVersions(o) # {} /\ LiveFetched(o) # {}

\* C7 as stated: of several live versions of one _oid the writer acts on the
\* first fetched only; for the others it writes nothing and leaves the
\* pending new version as the first one made it.
C7_ExtrasUntouched ==
    pc = "done" =>
        \A o \in Oids :
            Cardinality(LiveFetched(o)) >= 2 =>
                LET first == time_docs[FirstFetched(o)]
                    ob == build_docmap(ToSnap)[o]
                    doc == Pop(ob, "_start")
                IN  /\ \A i \in LiveFetched(o) \ {FirstFetched(o)} :
                          ~Closed(time_docs[i]["_id"])
                    /\ IF doc_changed(doc, first)
                       THEN /\ o \in DOMAIN docmap
                            /\ docmap[o] = merge_doc(first, doc, ob["_start"])
                       ELSE o \notin DOMAIN docmap

\* ================================================================ replay
\* The activity replay engine (metrique/cubes/sqldata/generic.py).
MaxWhen == 2      \* change-log timestamps are 1..MaxWhen
MaxLog == 2       \* entries per change-log
MaxRuns == 2      \* _activity_import_doc calls on one object

Whens == 1..MaxWhen

\* the fields whose log entries carry lists (isinstance(added, list) and
\* isinstance(removed, list))
ContainerFields == {"tags"}

\* ad in val
InList(val, ad) == \E i \in 1..Len(val) : val[i] = ad

\* val.remove(ad): the first occurrence goes
ListRemove(val, ad) ==
    LET i == CHOOSE i \in 1..Len(val) : val[i] = ad /\ \A j \in 1..(i - 1) : val[j] # ad
    IN  SubSeq(val, 1, i - 1) \o SubSeq(val, i + 1, Len(val))

\* for ad in added: if ad in val: val.remove(ad) else: inconsistent = True
RECURSIVE remove_added(_, _, _)
remove_added(val, added, inconsistent) ==
    IF added = << >> THEN [val |-> val, inconsistent |-> inconsistent]
    ELSE IF InList(val, Head(added))
         THEN remove_added(ListRemove(val, Head(added)), Tail(added), inconsistent)
         ELSE remove_added(val, Tail(added), TRUE)

\* (mutant) the change is not taken back: the value stays as it is
_activity_backwards_kept(val, removed, added, container) ==
    [val |-> val, inconsistent |-> IF container THEN remove_added(val, added, FALSE).inconsistent
                                   ELSE val # added]

\* (mutant) no entry is ever found inconsistent
_activity_backwards_blind(val, removed, added, container) ==
    IF container
    THEN [val |-> remove_added(val, added, FALSE).val \o removed, inconsistent |-> FALSE]
    ELSE [val |-> removed, inconsistent |-> FALSE]

\* _activity_backwards: the value before the change, and whether the entry
\* contradicts the value after it
_activity_backwards(val, removed, added, container) ==
    IF container
    THEN LET r == remove_added(val, added, FALSE)
         IN  [val |-> r.val \o removed, inconsistent |-> r.inconsistent]
    ELSE [val |-> removed, inconsistent |-> (val # added)]

\* activities = filter(lambda act: act[0] < td_start and act[1] in time_doc)
filter_activities(time_doc, acts_in) ==
    SelectSeq(acts_in, LAMBDA act : act[1] < time_doc["_start"] /\ act[2] \in DOMAIN time_doc)

\* (mutant) the activities are left in the order of the log
sort_activities_lost(s) == s

\* list.sort(reverse=True, key=when) is stable: entries of one timestamp
\* keep their order
RECURSIVE sort_activities(_)
sort_activities(s) ==
    IF s = << >> THEN << >>
    ELSE LET front == sort_activities(SubSeq(s, 1, Len(s) - 1))
             e == s[Len(s)]
             k == Cardinality({i \in 1..Len(front) : front[i][1] >= e[1]})
         IN  SubSeq(front, 1, k) \o <<e>> \o SubSeq(front, k + 1, Len(front))

\* does the loop body pop an empty stack (IndexError) on this entry?
pops_empty(stack, act) == Len(stack) = 1 /\ stack[1]["_end"] = act[1]

\* (mutant) the newer version keeps its _start: last_doc['_start'] = when is lost
import_step_keep(stack, act) ==
    LET when == act[1]
        field == act[2]
        n == Len(stack)
        top == stack[n]
        same == top["_end"] = when
        new_doc0 == IF same THEN top ELSE Put(Put(top, "_start", when), "_end", when)
        last_doc == IF same THEN stack[n - 1] ELSE top
        rest == IF same THEN SubSeq(stack, 1, n - 2) ELSE SubSeq(stack, 1, n - 1)
        bw == _activity_backwards(new_doc0[field], act[3], act[4], field \in ContainerFields)
        new_doc1 == Put(new_doc0, field, bw.val)
        corrupted == IF "_corrupted" \in DOMAIN new_doc1 THEN new_doc1["_corrupted"] ELSE EmptyDict
        new_doc == IF bw.inconsistent
                   THEN Put(new_doc1, "_corrupted", Put(corrupted, field, act[4]))
                   ELSE new_doc1
    IN  [stack |-> rest \o <<last_doc, new_doc>>,
         inconsistent |-> bw.inconsistent,
         last_val |-> last_doc[field],
         val |-> new_doc0[field]]

\* one iteration of the loop of _activity_import_doc
import_step(stack, act) ==
    LET when == act[1]
        field == act[2]
        n == Len(stack)
        top == stack[n]
        same == top["_end"] = when
        new_doc0 == IF same THEN top ELSE Put(Put(top, "_start", when), "_end", when)
        last_doc == IF same THEN stack[n - 1] ELSE Put(top, "_start", when)
        rest == IF same THEN SubSeq(stack, 1, n - 2) ELSE SubSeq(stack, 1, n - 1)
        bw == _activity_backwards(new_doc0[field], act[3], act[4], field \in ContainerFields)
        new_doc1 == Put(new_doc0, field, bw.val)
        corrupted == IF "_corrupted" \in DOMAIN new_doc1 THEN new_doc1["_corrupted"] ELSE EmptyDict
        new_doc == IF bw.inconsistent
                   THEN Put(new_doc1, "_corrupted", Put(corrupted, field, act[4]))
                   ELSE new_doc1
    IN  [stack |-> rest \o <<last_doc, new_doc>>,
         inconsistent |-> bw.inconsistent,
         last_val |-> last_doc[field],
         val |-> new_doc0[field]]

\* _log_inconsistency's record
incon_record(last_doc, last_val, field, removed, added, when) ==
    [oid |-> last_doc["_oid"], field |-> field, removed |-> removed, added |-> added,
     last_val |-> last_val, when |-> when]

\* (mutant) no version is ever backdated to its creation time
import_finish_asis(stack, cfield) == [stack |-> stack, returned |-> stack]

\* the creation-time step: the stack as it is left, and what is returned
import_finish(stack, cfield) ==
    LET n == Len(stack)
        last_doc == stack[n]
    IN  IF cfield = "" \/ cfield \notin DOMAIN last_doc
        THEN [stack |-> stack, returned |-> stack]
        ELSE IF last_doc[cfield] < last_doc["_start"]
        THEN LET st == [stack EXCEPT ![n] = Put(last_doc, "_start", last_doc[cfield])]
             IN  [stack |-> st, returned |-> st]
        ELSE IF n = 1
        THEN [stack |-> stack, returned |-> << >>]
        ELSE [stack |-> stack, returned |-> stack]

\* the whole of _activity_import_doc as a function of the object and its log
RECURSIVE import_loop(_, _)
import_loop(stack, todo) ==
    IF todo = << >> THEN stack
    ELSE import_loop(import_step(stack, Head(todo)).stack, Tail(todo))

import_doc(time_doc, acts_in, cfield) ==
    import_finish(import_loop(<<time_doc>>, sort_activities(filter_activities(time_doc, acts_in))),
                  cfield).returned

\* ------------------------------------------------------------ replay inputs
\* log entries <<when, field, removed, added>>: of a scalar field, of a
\* container field, and of a field the object does not have
ScalarEntries == {<<w, "status", ra[1], ra[2]>> : w \in Whens, ra \in {<<1, 2>>, <<2, 1>>}}
ListEntries ==
    {<<w, "tags", ra[1], ra[2]>> :
        w \in Whens, ra \in {<< <<1>>, <<2>> >>, << << >>, <<1>> >>, << <<2>>, << >> >>}}
OtherEntries == {<<1, "other", 1, 2>>}
Entries == ScalarEntries \cup ListEntries \cup OtherEntries

\* current-value objects: _end is None
CurrentDocs ==
    {[_oid |-> 1, _start |-> s, _end |-> NoneVal, status |-> st, tags |-> tg, created |-> c] :
        s \in 2..(MaxWhen + 1), st \in {1, 2}, tg \in {<<1>>, <<1, 2>>}, c \in {1, MaxWhen + 1}}

\* an object, its log and the cube's configuration are given; nothing has run
InitReplay ==
    /\ SWIdle
    /\ WKIdle
    /\ ODIdle
    /\ GOIdle
    /\ NZIdle
    /\ HSIdle
    /\ ar_time_doc \in CurrentDocs
    /\ \E n \in 0..MaxLog : activities \in [1..n -> Entries]
    /\ creation_field \in {"", "created"}
    /\ ar_pc = "ready"
    /\ acts = << >>
    /\ batch_updates = << >>
    /\ incon = << >>
    /\ result = << >>
    /\ runs = 0
    /\ doc0 = EmptyDict
    /\ result1 = [versions |-> << >>, logged |-> 0]
    /\ last_step = << >>

\* ----------------------------------------------------------- replay actions
\* _activity_import_doc is called on the object, as it now is, and its log
\* (generic.py:148-158)
ImportStart ==
    /\ ar_pc \in {"ready", "returned"}
    /\ runs < MaxRuns
    /\ runs' = runs + 1
    /\ doc0' = ar_time_doc
    /\ batch_updates' = <<ar_time_doc>>
    /\ acts' = sort_activities(filter_activities(ar_time_doc, activities))
    /\ result' = << >>
    /\ last_step' = << >>
    /\ ar_pc' = "loop"
    /\ UNCHANGED <<ar_time_doc, activities, creation_field, incon, result1>>
    /\ UNCHANGED not_ar

\* one entry of the log (generic.py:160-187); batch_updates[1] is the
\* caller's object, changed in place
ImportLoop ==
    /\ ar_pc = "loop"
    /\ acts # << >>
    /\ LET act == Head(acts)
       IN  IF pops_empty(batch_updates, act)
           THEN /\ ar_pc' = "raised"
                /\ UNCHANGED <<ar_time_doc, acts, batch_updates, incon, last_step>>
           ELSE LET r == import_step(batch_updates, act)
                IN  /\ batch_updates' = r.stack
                    /\ ar_time_doc' = r.stack[1]
                    /\ incon' = IF r.inconsistent
                                THEN Append(incon,
                                            incon_record(r.stack[Len(r.stack) - 1], r.last_val,
                                                         act[2], act[3], act[4], act[1]))
                                ELSE incon
                    /\ last_step' = <<[act |-> act, val |-> r.val, logged |-> Len(incon)]>>
                    /\ acts' = Tail(acts)
                    /\ ar_pc' = "loop"
    /\ UNCHANGED <<activities, creation_field, result, runs, doc0, result1>>
    /\ UNCHANGED not_ar

\* the creation-time step and the return (generic.py:188-205)
ImportReturn ==
    /\ ar_pc = "loop"
    /\ acts = << >>
    /\ LET f == import_finish(batch_updates, creation_field)
       IN  /\ batch_updates' = f.stack
           /\ ar_time_doc' = f.stack[1]
           /\ result' = f.returned
           /\ result1' = IF runs = 1
                         THEN [versions |-> f.returned, logged |-> Len(incon)]
                         ELSE result1
    /\ ar_pc' = "returned"
    /\ UNCHANGED <<activities, creation_field, acts, incon, runs, doc0, last_step>>
    /\ UNCHANGED not_ar

NextReplay ==
    \/ ImportStart
    \/ ImportLoop
    \/ ImportReturn

SpecReplay == InitReplay /\ [][NextReplay]_vars

\* ------------------------------------------------------------ replay claims
\* the [_start, _end) of each version, in the order returned
Intervals(versions) ==
    [i \in 1..Len(versions) |-> <<versions[i]["_start"], versions[i]["_end"]>>]

\* the first call has returned
FirstReturned == ar_pc = "returned" /\ runs = 1

\* the case of C8: the log is one consistent entry of a scalar field, older
\* than the object's _start, and no creation field is configured
OneScalarEntry ==
    /\ FirstReturned
    /\ creation_field = ""
    /\ Len(activities) = 1
    /\ activities[1][2] = "status"
    /\ activities[1][1] < doc0["_start"]
    /\ doc0["status"] = activities[1][4]

\* C8 as stated: one consistent scalar entry (w, f, removed, added) with
\* w < s0 gives two versions, a historical one with f = removed over [w, s0)
\* and the current one with f = added over [s0, None).
C8_HistoryUntilStart ==
    OneScalarEntry =>
        LET act == activities[1]
            s0 == doc0["_start"]
        IN  /\ Len(result) = 2
            /\ \E i, j \in 1..2 :
                  /\ i # j
                  /\ result[i]["status"] = act[3]
                  /\ Intervals(result)[i] = <<act[1], s0>>
                  /\ result[j]["status"] = act[4]
                  /\ Intervals(result)[j] = <<s0, NoneVal>>

\* C8 as the code has it: one consistent scalar entry (w, f, removed, added)
\* with w < s0 gives two versions, the current one with f = added over
\* [w, None), its _start moved back to w, and a historical one with
\* f = removed over the empty interval [w, w).
C8_HistoryAtWhen ==
    OneScalarEntry =>
        LET act == activities[1]
        IN  /\ Len(result) = 2
            /\ result[1]["status"] = act[4]
            /\ Intervals(result)[1] = <<act[1], NoneVal>>
            /\ result[2]["status"] = act[3]
            /\ Intervals(result)[2] = <<act[1], act[1]>>
            /\ incon = << >>

C8_Witness ==
    /\ OneScalarEntry
    /\ Len(result) = 2
    /\ doc0["_start"] > activities[1][1] + 1

\* is the entry inconsistent with the value the version held, as C9 defines it
InconsistentEntry(val, act) ==
    IF act[2] \in ContainerFields
    THEN \E i \in 1..Len(act[4]) : ~InList(val, act[4][i])
    ELSE val # act[4]

\* a log with the timestamps and fields of acts_in that is consistent with
\* doc: a scalar entry adds the value the version holds, a container entry
\* adds nothing; the entries replay does not process stay as they are
RECURSIVE consistent_from(_, _)
consistent_from(stack, todo) ==
    IF todo = << >> THEN << >>
    ELSE LET act == Head(todo)
             val == stack[Len(stack)][act[2]]
             fixed == <<act[1], act[2], act[3],
                        IF act[2] \in ContainerFields THEN << >> ELSE val>>
         IN  <<fixed>> \o consistent_from(import_step(stack, fixed).stack, Tail(todo))

ConsistentLog(doc, acts_in) ==
    consistent_from(<<doc>>, sort_activities(filter_activities(doc, acts_in)))
    \o SelectSeq(acts_in, LAMBDA act : ~(act[1] < doc["_start"] /\ act[2] \in DOMAIN doc))

\* the number of entries of the log that replay of doc finds inconsistent
RECURSIVE count_inconsistent(_, _)
count_inconsistent(stack, todo) ==
    IF todo = << >> THEN 0
    ELSE LET r == import_step(stack, Head(todo))
         IN  (IF r.inconsistent THEN 1 ELSE 0) + count_inconsistent(r.stack, Tail(todo))

Inconsistencies(doc, acts_in) ==
    count_inconsistent(<<doc>>, sort_activities(filter_activities(doc, acts_in)))

\* C9: an entry that is inconsistent with the value its version held appends
\* exactly one record to the inconsistency log and sets _corrupted[field] =
\* added on the historical version made for it; replay never aborts; and it
\* returns as many versions, with the same intervals, as it does for a
\* consistent log with the same timestamps.
C9_InconsistencyIsNotFatal ==
    /\ ar_pc # "raised"
    /\ last_step # << >> =>
          LET ls == last_step[1]
              act == ls.act
              hist == batch_updates[Len(batch_updates)]
          IN  InconsistentEntry(ls.val, act) =>
                  /\ Len(incon) = ls.logged + 1
                  /\ incon[Len(incon)].field = act[2]
                  /\ incon[Len(incon)].when = act[1]
                  /\ "_corrupted" \in DOMAIN hist
                  /\ act[2] \in DOMAIN hist["_corrupted"]
                  /\ hist["_corrupted"][act[2]] = act[4]
    /\ ar_pc = "returned" =>
          LET good == ConsistentLog(doc0, activities)
          IN  /\ Inconsistencies(doc0, good) = 0
              /\ Intervals(result) = Intervals(import_doc(doc0, good, creation_field))

\* a call that met an inconsistent entry of each kind returned two versions or more
C9_Witness ==
    /\ FirstReturned
    /\ Len(incon) = 2
    /\ incon[1].field = "status"
    /\ incon[2].field = "tags"
    /\ Len(result) = 3

\* C10 as stated: for a log with no inconsistencies, a second replay of the
\* same current object and log returns the versions the first one returned.
C10_ReplayTwice ==
    (ar_pc = "returned" /\ runs = 2 /\ result1.logged = 0) =>
        /\ Len(result) = Len(result1.versions)
        /\ Intervals(result) = Intervals(result1.versions)
        /\ result = result1.versions

\* C11: a non-empty list returned by replay has exactly one version with
\* _end = None, the current object; the versions are in time order, newest
\* first, and each closed version ends where the next later one starts.
C11_ContiguousIntervals ==
    (ar_pc = "returned" /\ result # << >>) =>
        /\ Cardinality({i \in 1..Len(result) : result[i]["_end"] = NoneVal}) = 1
        /\ result[1]["_end"] = NoneVal
        /\ result[1]["_oid"] = doc0["_oid"]
        /\ \A i \in 2..Len(result) :
              /\ result[i]["_end"] = result[i - 1]["_start"]
              /\ result[i]["_start"] <= result[i]["_end"]

\* three versions, of two timestamps given in ascending order in the log
C11_Witness ==
    /\ FirstReturned
    /\ Len(result) = 3
    /\ Len(activities) = 2
    /\ activities[1][1] < activities[2][1]

\* C12: when a creation field is configured and the oldest version (the top
\* of the stack) has a creation value earlier than its _start, replay sets
\* that version's _start to the creation value and changes no other version;
\* with an empty log it returns the current version alone, so backdated.
C12_BackdateOldest ==
    [][(/\ ar_pc = "loop"
        /\ ar_pc' = "returned"
        /\ creation_field # ""
        /\ batch_updates[Len(batch_updates)][creation_field]
               < batch_updates[Len(batch_updates)]["_start"])
       => LET n == Len(batch_updates)
              creation == batch_updates[n][creation_field]
          IN  /\ result' = [batch_updates EXCEPT ![n] = Put(batch_updates[n], "_start", creation)]
              /\ activities = << >> => result' = <<Put(doc0, "_start", creation)>>]_vars

\* the oldest of several versions was backdated to its creation value
C12_Witness ==
    /\ FirstReturned
    /\ creation_field = "created"
    /\ Len(result) = 2
    /\ result[2]["_start"] = result[2]["created"]
    /\ result[2]["_start"] < result[2]["_end"]

\* the current version of an empty log was backdated
C12_WitnessEmptyLog ==
    /\ FirstReturned
    /\ creation_field = "created"
    /\ activities = << >>
    /\ Len(result) = 1
    /\ result[1]["_start"] = doc0["created"]
    /\ doc0["created"] < doc0["_start"]

\* C13 as stated: when replay ends with the current version alone on the
\* stack, as it was given, it returns the empty list, with or without a
\* creation field.
C13_UnchangedReturnsNothing ==
    (ar_pc = "returned" /\ Len(batch_updates) = 1 /\ batch_updates[1] = doc0) =>
        result = << >>

\* ============================================================== oid diff
\* The oid-diff driver (generic.py _delta_force, get_new_oids,
\* get_changed_oids).  A value of `force` is <<kind, value>>: <<"true", 0>>
\* is True, <<"falsy", 0>> is None, False, 0 or an empty list, <<"list", l>>
\* a non-empty list, tuple or set and <<"scalar", v>> any other value.
MaxRows == 2      \* rows of the source table

SourceOids == {1, 2, 3}

\* the elements of a finite set of integers, ascending
RECURSIVE SortedSeq(_)
SortedSeq(S) ==
    IF S = {} THEN << >>
    ELSE LET m == CHOOSE x \in S : \A y \in S : x <= y
         IN  <<m>> \o SortedSeq(S \ {m})

\* the set of the elements of a list
Range(l) == {l[i] : i \in 1..Len(l)}

\* sorted(set(oids))
sorted_set(oids) == SortedSeq(Range(oids))

\* sql_get_oids: SELECT DISTINCT _oid over the rows the WHERE clause keeps, sorted
sql_get_oids(rows) == SortedSeq({r.oid : r \in rows})

\* get_new_oids: the oids above the greatest _oid of the cube; nothing when
\* the cube has none
get_new_oids(source, last_id) ==
    IF last_id # NoneVal /\ last_id # 0
    THEN sql_get_oids({r \in source : r.oid > last_id})
    ELSE << >>

\* _fetch_mtime: last_update if given, else the greatest _start of the cube
_fetch_mtime(last_update, last_start) ==
    IF last_update # NoneVal THEN last_update ELSE last_start

\* get_changed_oids: the oids of the rows changed after mtime
get_changed_oids(source, config, last_update, last_start) ==
    LET mtime == _fetch_mtime(last_update, last_start)
    IN  IF ~(config.delta_mtime /\ mtime # NoneVal)
        THEN << >>
        ELSE sql_get_oids({r \in source : r.mtime > mtime})

\* force = force or config.get('force') or False
effective_force(force, config) ==
    IF force[1] # "falsy" THEN force ELSE config.force

\* the list _delta_force has in `oids` before its last line
delta_oids(source, config, force, last_update, last_id, last_start) ==
    LET f == effective_force(force, config)
    IN  IF f[1] = "true" THEN sql_get_oids(source)
        ELSE IF f[1] = "falsy"
        THEN (IF config.delta_new_ids THEN get_new_oids(source, last_id) ELSE << >>)
             \o (IF config.delta_mtime
                 THEN get_changed_oids(source, config, last_update, last_start)
                 ELSE << >>)
        ELSE IF f[1] = "list" THEN f[2]
        ELSE << >>

\* (mutant) the last line returns oids as they are
_delta_force_raw(source, config, force, last_update, last_id, last_start) ==
    delta_oids(source, config, force, last_update, last_id, last_start)

\* _delta_force
_delta_force(source, config, force, last_update, last_id, last_start) ==
    sorted_set(delta_oids(source, config, force, last_update, last_id, last_start))

\* ---------------------------------------------------------- oid diff inputs
Rows == [oid : SourceOids, mtime : Times]
Sources == {S \in SUBSET Rows : Cardinality(S) <= MaxRows}

ForceLists == UNION {[1..n -> SourceOids] : n \in 1..2}
Forces ==
    {<<"true", 0>>, <<"falsy", 0>>}
    \cup {<<"list", l>> : l \in ForceLists}
    \cup {<<"scalar", v>> : v \in SourceOids}

Configs == [force : {<<"falsy", 0>>, <<"true", 0>>}, delta_new_ids : BOOLEAN, delta_mtime : BOOLEAN]

InitDelta ==
    /\ SWIdle
    /\ WKIdle
    /\ ARIdle
    /\ GOIdle
    /\ NZIdle
    /\ HSIdle
    /\ od_source \in Sources
    /\ od_last_id \in {NoneVal} \cup SourceOids
    /\ od_last_start \in {NoneVal} \cup Times
    /\ od_config \in Configs
    /\ od_args \in [force : Forces, last_update : {NoneVal, 1}]
    /\ od_pc = "ready"
    /\ od_result = << >>

\* --------------------------------------------------------- oid diff actions
\* _delta_force(force, last_update) is called
DeltaForce ==
    /\ od_pc = "ready"
    /\ od_result' = _delta_force(od_source, od_config, od_args.force, od_args.last_update,
                                 od_last_id, od_last_start)
    /\ od_pc' = "_delta_force"
    /\ UNCHANGED <<od_source, od_last_id, od_last_start, od_config, od_args>>
    /\ UNCHANGED not_od

\* get_new_oids() is called
GetNewOids ==
    /\ od_pc = "ready"
    /\ od_result' = get_new_oids(od_source, od_last_id)
    /\ od_pc' = "get_new_oids"
    /\ UNCHANGED <<od_source, od_last_id, od_last_start, od_config, od_args>>
    /\ UNCHANGED not_od

NextDelta ==
    \/ DeltaForce
    \/ GetNewOids

SpecDelta == InitDelta /\ [][NextDelta]_vars

\* ----------------------------------------------------------- oid diff claims
\* C14 as stated: a force that is a single scalar value gives the singleton
\* list of that value.
C14_ScalarIsSingleton ==
    (od_pc = "_delta_force" /\ od_args.force[1] = "scalar") =>
        od_result = <<od_args.force[2]>>

\* the oids get_new_oids and get_changed_oids report for the call's inputs
NewOids == Range(get_new_oids(od_source, od_last_id))
ChangedOids == Range(get_changed_oids(od_source, od_config, od_args.last_update, od_last_start))

\* both deltas are on and no force is in effect
BothDeltas ==
    /\ effective_force(od_args.force, od_config)[1] = "falsy"
    /\ od_config.delta_new_ids
    /\ od_config.delta_mtime

\* C15: whatever the policy, the list _delta_force returns is strictly
\* ascending, so free of duplicates; an oid that new-oids and changed-oids
\* both report is in it once.
C15_SortedUnique ==
    od_pc = "_delta_force" =>
        /\ \A i, j \in 1..Len(od_result) : i < j => od_result[i] < od_result[j]
        /\ BothDeltas =>
              \A o \in NewOids \cap ChangedOids :
                  Cardinality({i \in 1..Len(od_result) : od_result[i] = o}) = 1

\* an oid is both new and changed, and a smaller oid is changed only
C15_Witness ==
    /\ od_pc = "_delta_force"
    /\ BothDeltas
    /\ NewOids \cap ChangedOids # {}
    /\ \E o \in ChangedOids \ NewOids : \A n \in NewOids : o < n
    /\ Len(od_result) = 2

\* a forced list with a duplicate, or out of order, was resolved
C15_WitnessList ==
    /\ od_pc = "_delta_force"
    /\ od_args.force[1] = "list"
    /\ od_args.force[2] \in {<<2, 1>>, <<3, 3>>}
    /\ od_result \in {<<1, 2>>, <<3>>}

\* C16 as stated: with no prior state (the cube has no greatest _oid), and
\* nothing configured to the contrary, get_new_oids returns all oids of
\* the source.  (The code reads no such configuration.)
C16_NoPriorStateAllOids ==
    (od_pc = "get_new_oids" /\ od_last_id = NoneVal) =>
        od_result = sql_get_oids(od_source)

\* ============================================================ normalizer
\* _prep_objects (generic.py:556-650).  A value is <<type, payload>>:
\* <<"none", 0>> is None, <<"int", n>> an integer, <<"str", c>> a byte
\* string and <<"unicode", c>> a unicode string, where text c >= 1 is the
\* decimal text of c and text 0 is the empty string, <<"list", l>> a list
\* of values and <<"buffer", l>> a buffer holding the lines l.
MaxItems == 2     \* items of a raw list, lines of a raw buffer

None == <<"none", 0>>
Error == <<"error", 0>>

IsText(v) == v[1] \in {"str", "unicode"}

\* bool(value)
Truthy(v) ==
    IF v[1] = "none" THEN FALSE
    ELSE IF v[1] \in {"list", "buffer"} THEN v[2] # << >>
    ELSE v[2] # 0

\* _unwrap: a buffer is decoded, stripped and split into its lines; None if empty
_unwrap(value) ==
    IF value[1] = "buffer"
    THEN IF value[2] = << >> THEN None
         ELSE <<"list", [i \in 1..Len(value[2]) |-> <<"unicode", value[2][i]>>]>>
    ELSE value

\* (mutant) a list in a field that is not a container is let through
_normalize_container_lax(spec, value) ==
    IF spec.container /\ value[1] # "list"
    THEN IF Truthy(value) THEN <<"list", <<value>>>> ELSE None
    ELSE value

\* _normalize_container
_normalize_container(spec, value) ==
    IF spec.container /\ value[1] # "list"
    THEN IF Truthy(value) THEN <<"list", <<value>>>> ELSE None
    ELSE IF ~spec.container /\ value[1] = "list" THEN Error
    ELSE value

\* _convert with no 'convert' configured for the field
_convert(spec, value) == value

\* _type(value) for _type int, str, unicode
Cast(value, _type) ==
    IF _type = "int" THEN <<"int", value[2]>>
    ELSE <<_type, value[2]>>

\* _type_single
_type_single(value, _type) ==
    IF value[1] = "none" THEN value
    ELSE IF IsText(value) /\ value[2] = 0 THEN None
    ELSE IF _type = "none"
    THEN IF value[1] = "unicode" THEN <<"str", value[2]>> ELSE <<"unicode", value[2]>>
    ELSE IF value[1] = _type THEN value
    ELSE LET c == Cast(value, _type)
         IN  IF c[1] = "unicode" THEN <<"str", c[2]>>
             ELSE IF c[1] = "str" THEN <<"unicode", c[2]>>
             ELSE c

\* the order Python 2 gives values: None, then numbers, then text by content
SortKey(v) ==
    IF v[1] = "none" THEN 0 ELSE IF v[1] = "int" THEN 1000 + v[2] ELSE 2000 + v[2]

\* sorted(items): stable
RECURSIVE sorted_values(_)
sorted_values(s) ==
    IF s = << >> THEN << >>
    ELSE LET front == sorted_values(SubSeq(s, 1, Len(s) - 1))
             e == s[Len(s)]
             k == Cardinality({i \in 1..Len(front) : SortKey(front[i]) <= SortKey(e)})
         IN  SubSeq(front, 1, k) \o <<e>> \o SubSeq(front, k + 1, Len(front))

\* _type_container
_type_container(value, _type) ==
    IF value[1] = "none" THEN <<"list", << >>>>
    ELSE IF value[1] # "list" THEN Error
    ELSE <<"list", sorted_values([i \in 1..Len(value[2]) |-> _type_single(value[2][i], _type)])>>

\* _typecast
_typecast(spec, value) ==
    IF spec.container THEN _type_container(value, spec.type)
    ELSE _type_single(value, spec.type)

\* the four steps on one field of one row
prep_field(spec, value) ==
    LET n == _normalize_container(spec, _unwrap(value))
    IN  IF n[1] = "error" THEN Error ELSE _typecast(spec, _convert(spec, n))

\* _prep_objects on one row
_prep_objects(fields, o) == [field \in DOMAIN o |-> prep_field(fields[field], o[field])]

\* did a step raise on some field of the row
Raised(o) == \E field \in DOMAIN o : o[field][1] = "error"

\* the schema of the fetched rows: one field, not a container
FetchFields == [f |-> [container |-> FALSE, type |-> "int"]]

\* what a fetch may bring: a row the schema accepts, or a list in field f
FetchedRows == {[f |-> <<"int", 1>>], [f |-> <<"list", <<<<"int", 1>>>>>>]}

\* ============================================================ extraction
\* get_objects / get_full_history: the resolved oids are cut into batches
\* and each batch is fetched, with retries, normalized and handed on
\* (generic.py:41-60, 363-443, 466-512; utils.py:80-88).
MaxFetch == 3       \* oids resolved for one extraction
MaxBatchSize == 2   \* batch_size and worker_batch_size are 1..MaxBatchSize
MaxRetries == 2     \* config retries is None or 0..MaxRetries

Min(a, b) == IF a <= b THEN a ELSE b

\* (mutant) each slice runs one element into the next: data[i:i + batch_size + 1]
batch_gen_overlap(data, batch_size) ==
    [i \in 1..((Len(data) + batch_size - 1) \div batch_size) |->
        SubSeq(data, (i - 1) * batch_size + 1, Min(i * batch_size + 1, Len(data)))]

\* batch_gen: data[i:i + batch_size] for i in range(0, len(data), batch_size)
batch_gen(data, batch_size) ==
    [i \in 1..((Len(data) + batch_size - 1) \div batch_size) |->
        SubSeq(data, (i - 1) * batch_size + 1, Min(i * batch_size, Len(data)))]

\* (mutant) one attempt more than configured
initial_retries_more(retries) == IF retries = NoneVal \/ retries = 0 THEN 1 ELSE retries + 1

\* retries = config.get('retries') or 1
initial_retries(retries) == IF retries = NoneVal \/ retries = 0 THEN 1 ELSE retries

\* is the extraction spread over workers: HAS_JOBLIB and workers > 1
parallel(config) == config.workers > 1

\* one call of the module-level get_objects / get_full_history, or the loop
\* of the method itself: its oids and the batches it has yet to fetch
new_task(oids, batch_size) ==
    [oids |-> oids, todo |-> batch_gen(oids, batch_size), retries |-> 0,
     results |-> << >>, batches |-> << >>, status |-> "pending"]

\* the tasks of an extraction
make_tasks(oids, config) ==
    IF parallel(config)
    THEN LET w == batch_gen(oids, config.worker_batch_size)
         IN  [i \in 1..Len(w) |-> new_task(w[i], config.batch_size)]
    ELSE <<new_task(oids, config.batch_size)>>

\* the tasks that are running
Running == {t \in 1..Len(go_tasks) : go_tasks[t].status = "running"}
Failed == {t \in 1..Len(go_tasks) : go_tasks[t].status = "failed"}

\* is task t inside _get_objects, fetching a batch
Fetching(t) ==
    /\ go_tasks[t].batches # << >>
    /\ go_tasks[t].batches[Len(go_tasks[t].batches)].outcome = "fetching"

\* result = [i for l in result for i in l]
RECURSIVE merge_results(_)
merge_results(tasks) ==
    IF tasks = << >> THEN << >> ELSE Head(tasks).results \o merge_results(Tail(tasks))

\* ------------------------------------------------------- extraction inputs
InitFetch ==
    /\ SWIdle
    /\ WKIdle
    /\ ARIdle
    /\ ODIdle
    /\ NZIdle
    /\ HSIdle
    /\ go_oids \in {[i \in 1..n |-> i] : n \in 0..MaxFetch}
    /\ go_config \in [workers : {1, 2}, worker_batch_size : 1..MaxBatchSize,
                      batch_size : 1..MaxBatchSize, retries : {NoneVal} \cup 0..MaxRetries,
                      sql_ok : BOOLEAN]
    /\ go_tasks = << >>
    /\ go_pc = "ready"
    /\ go_result = << >>

\* ------------------------------------------------------ extraction actions
\* get_objects is called: the oids are cut into the batches of the tasks
\* (generic.py:384-407)
GetObjects ==
    /\ go_pc = "ready"
    /\ go_tasks' = make_tasks(go_oids, go_config)
    /\ go_pc' = "running"
    /\ UNCHANGED <<go_oids, go_config, go_result>>
    /\ UNCHANGED not_go

\* a worker takes the next task; no more than `workers` run at a time
TaskStart(t) ==
    /\ go_pc = "running"
    /\ go_tasks[t].status = "pending"
    /\ Cardinality(Running) < go_config.workers
    /\ \A u \in 1..(t - 1) : go_tasks[u].status # "pending"
    /\ go_tasks' = [go_tasks EXCEPT ![t].status = "running"]
    /\ UNCHANGED <<go_oids, go_config, go_pc, go_result>>
    /\ UNCHANGED not_go

\* _get_objects is called on the next batch of the task: _generate_sql
\* raises if db, table or _oid is not configured (generic.py:418-422, 339-340)
BatchStart(t) ==
    /\ go_pc = "running"
    /\ go_tasks[t].status = "running"
    /\ ~Fetching(t)
    /\ go_tasks[t].todo # << >>
    /\ IF go_config.sql_ok
       THEN go_tasks' = [go_tasks EXCEPT
               ![t].batches = Append(@, [batch |-> Head(go_tasks[t].todo), attempts |-> 0,
                                         fails |-> 0, outcome |-> "fetching",
                                         row |-> EmptyDict]),
               ![t].todo = Tail(@),
               ![t].retries = initial_retries(go_config.retries)]
       ELSE go_tasks' = [go_tasks EXCEPT
               ![t].batches = Append(@, [batch |-> Head(go_tasks[t].todo), attempts |-> 0,
                                         fails |-> 0, outcome |-> "sql_error",
                                         row |-> EmptyDict]),
               ![t].todo = Tail(@),
               ![t].retries = initial_retries(go_config.retries),
               ![t].status = "failed"]
    /\ UNCHANGED <<go_oids, go_config, go_pc, go_result>>
    /\ UNCHANGED not_go

\* _load_sql succeeds: the loop is left and the rows are normalized; the
\* objects of the batch are handed on, unless _prep_objects raises
\* (generic.py:423-426, 436-443)
FetchOk(t) ==
    /\ go_pc = "running"
    /\ go_tasks[t].status = "running"
    /\ Fetching(t)
    /\ go_tasks[t].retries > 0
    /\ \E row \in FetchedRows :
          LET n == Len(go_tasks[t].batches)
              b == go_tasks[t].batches[n]
          IN  IF Raised(_prep_objects(FetchFields, row))
              THEN go_tasks' = [go_tasks EXCEPT
                       ![t].batches[n] = [b EXCEPT !.attempts = @ + 1, !.row = row,
                                                   !.outcome = "value_error"],
                       ![t].status = "failed"]
              ELSE go_tasks' = [go_tasks EXCEPT
                       ![t].batches[n] = [b EXCEPT !.attempts = @ + 1, !.row = row,
                                                   !.outcome = "ok"],
                       ![t].results = @ \o b.batch]
    /\ UNCHANGED <<go_oids, go_config, go_pc, go_result>>
    /\ UNCHANGED not_go

\* _load_sql raises: the error is raised on if this was the last attempt,
\* else one retry is used up (generic.py:427-432)
FetchFail(t) ==
    /\ go_pc = "running"
    /\ go_tasks[t].status = "running"
    /\ Fetching(t)
    /\ go_tasks[t].retries > 0
    /\ LET n == Len(go_tasks[t].batches)
           b == go_tasks[t].batches[n]
       IN  IF go_tasks[t].retries <= 1
           THEN go_tasks' = [go_tasks EXCEPT
                    ![t].batches[n] = [b EXCEPT !.attempts = @ + 1, !.fails = @ + 1,
                                                !.outcome = "raised"],
                    ![t].status = "failed"]
           ELSE go_tasks' = [go_tasks EXCEPT
                    ![t].batches[n] = [b EXCEPT !.attempts = @ + 1, !.fails = @ + 1],
                    ![t].retries = @ - 1]
    /\ UNCHANGED <<go_oids, go_config, go_pc, go_result>>
    /\ UNCHANGED not_go

\* the loop over the batches of the task is over: it returns its results
TaskDone(t) ==
    /\ go_pc = "running"
    /\ go_tasks[t].status = "running"
    /\ ~Fetching(t)
    /\ go_tasks[t].todo = << >>
    /\ go_tasks' = [go_tasks EXCEPT ![t].status = "done"]
    /\ UNCHANGED <<go_oids, go_config, go_pc, go_result>>
    /\ UNCHANGED not_go

\* a worker has failed: Parallel may stop a peer before it is done
PeerStopped(t) ==
    /\ go_pc = "running"
    /\ parallel(go_config)
    /\ Failed # {}
    /\ go_tasks[t].status = "running"
    /\ go_tasks' = [go_tasks EXCEPT ![t].status = "stopped"]
    /\ UNCHANGED <<go_oids, go_config, go_pc, go_result>>
    /\ UNCHANGED not_go

\* every task is done: the results are merged and returned (generic.py:402, 411-416)
GetObjectsReturn ==
    /\ go_pc = "running"
    /\ \A t \in 1..Len(go_tasks) : go_tasks[t].status = "done"
    /\ go_result' = merge_results(go_tasks)
    /\ go_pc' = "returned"
    /\ UNCHANGED <<go_oids, go_config, go_tasks>>
    /\ UNCHANGED not_go

\* the error of a failed task leaves get_objects: _get_objects raises in
\* the loop, or runner(...) raises in place of returning the list of results
GetObjectsRaise ==
    /\ go_pc = "running"
    /\ Failed # {}
    /\ Running = {}
    /\ go_pc' = "raised"
    /\ UNCHANGED <<go_oids, go_config, go_tasks, go_result>>
    /\ UNCHANGED not_go

NextFetch ==
    \/ GetObjects
    \/ \E t \in 1..Len(go_tasks) : TaskStart(t)
    \/ \E t \in 1..Len(go_tasks) : BatchStart(t)
    \/ \E t \in 1..Len(go_tasks) : FetchOk(t)
    \/ \E t \in 1..Len(go_tasks) : FetchFail(t)
    \/ \E t \in 1..Len(go_tasks) : TaskDone(t)
    \/ \E t \in 1..Len(go_tasks) : PeerStopped(t)
    \/ GetObjectsReturn
    \/ GetObjectsRaise

SpecFetch == InitFetch /\ [][NextFetch]_vars

\* ---------------------------------------------------------- extraction claims
\* the attempts the configuration allows for a batch: a missing or zero
\* `retries` counts as 1
AllowedAttempts == IF go_config.retries \in {NoneVal, 0} THEN 1 ELSE go_config.retries

\* the batches handed to _get_objects so far, as <<task, index>>
Handed ==
    {tn \in (1..Len(go_tasks)) \X (1..MaxFetch) : tn[2] <= Len(go_tasks[tn[1]].batches)}

\* C17: the fetch of a batch is attempted at least once and at most
\* `retries` times; the attempts stop at the first success; when every
\* attempt fails the error of the last is raised and nothing of the batch
\* is normalized or handed on.
C17_BoundedRetries ==
    \A tn \in Handed :
        LET task == go_tasks[tn[1]]
            b == task.batches[tn[2]]
        IN  /\ b.attempts <= AllowedAttempts
            /\ b.outcome = "ok" => (b.attempts >= 1 /\ b.fails = b.attempts - 1)
            /\ b.outcome = "raised" =>
                  /\ b.attempts = AllowedAttempts
                  /\ b.fails = b.attempts
                  /\ task.status = "failed"
                  /\ tn[2] = Len(task.batches)
                  /\ \A i \in 1..Len(b.batch) : ~InList(task.results, b.batch[i])
                  /\ go_pc # "returned"
            /\ b.outcome = "fetching" => b.fails = b.attempts

\* a batch was fetched at the last allowed attempt, and a later one failed for good
C17_Witness ==
    /\ go_pc = "raised"
    /\ go_config.retries = MaxRetries
    /\ \E t \in 1..Len(go_tasks) :
          /\ Len(go_tasks[t].batches) = 2
          /\ go_tasks[t].batches[1].outcome = "ok"
          /\ go_tasks[t].batches[1].attempts = MaxRetries
          /\ go_tasks[t].batches[2].outcome = "raised"

\* the extraction is over, one way or the other
FetchOver == go_pc \in {"returned", "raised"}

\* C18 as stated: with workers > 1, when the batch of one worker fails for
\* good, the other workers run to completion and what they produced is in
\* the list get_objects returns.
C18_PeersSurvive ==
    (FetchOver /\ parallel(go_config) /\ Failed # {}) =>
        /\ go_pc = "returned"
        /\ \A t \in 1..Len(go_tasks) :
              t \notin Failed =>
                  /\ go_tasks[t].status = "done"
                  /\ \A i \in 1..Len(go_tasks[t].results) :
                        InList(go_result, go_tasks[t].results[i])

\* C19: the batches handed to the per-batch pipeline are consecutive
\* slices, in order, of the resolved oid list: each holds between 1 and
\* batch_size oids, those of one task make up, so far, a prefix of the
\* task's oids, and the oids of the tasks, in order, make up the list;
\* so when all is fetched every oid is in exactly one batch.
RECURSIVE concat_batches(_)
concat_batches(batches) ==
    IF batches = << >> THEN << >>
    ELSE Head(batches).batch \o concat_batches(Tail(batches))

RECURSIVE concat_oids(_)
concat_oids(tasks) ==
    IF tasks = << >> THEN << >> ELSE Head(tasks).oids \o concat_oids(Tail(tasks))

C19_ConsecutiveSlices ==
    go_pc # "ready" /\ go_pc # "off" =>
        /\ concat_oids(go_tasks) = go_oids
        /\ \A t \in 1..Len(go_tasks) :
              LET task == go_tasks[t]
                  so_far == concat_batches(task.batches)
              IN  /\ so_far = SubSeq(task.oids, 1, Len(so_far))
                  /\ (task.todo = << >> /\ task.batches # << >>) => so_far = task.oids
                  /\ task.status = "done" => so_far = task.oids
                  /\ \A n \in 1..Len(task.batches) :
                        /\ Len(task.batches[n].batch) >= 1
                        /\ Len(task.batches[n].batch) <= go_config.batch_size
                  /\ parallel(go_config) => Len(task.oids) <= go_config.worker_batch_size
        /\ go_pc = "returned" => go_result = go_oids

\* two workers' batches, one of them cut again into two, all fetched
C19_Witness ==
    /\ go_pc = "returned"
    /\ parallel(go_config)
    /\ Len(go_tasks) = 2
    /\ Len(go_tasks[1].batches) = 2
    /\ Len(go_tasks[2].batches) = 1
    /\ Len(go_oids) = 3

\* one worker: the list is cut by batch_size, the last batch is short
C19_WitnessSingle ==
    /\ go_pc = "returned"
    /\ ~parallel(go_config)
    /\ Len(go_tasks) = 1
    /\ Len(go_tasks[1].batches) = 2
    /\ Len(go_oids) = 3

\* ------------------------------------------------------- normalizer inputs
Scalars ==
    {None}
    \cup {<<"str", c>> : c \in 0..2}
    \cup {<<"unicode", c>> : c \in 0..2}
    \cup {<<"int", n>> : n \in 1..2}

Items == {<<"str", 1>>, <<"str", 2>>, <<"unicode", 1>>, <<"int", 2>>}

RawValues ==
    Scalars
    \cup {<<"list", l>> : l \in UNION {[1..n -> Items] : n \in 0..MaxItems}}
    \cup {<<"buffer", l>> : l \in UNION {[1..n -> 1..2] : n \in 0..MaxItems}}

FieldSpecs == [container : BOOLEAN, type : {"none", "int", "str", "unicode"}]

InitNormalize ==
    /\ SWIdle
    /\ WKIdle
    /\ ARIdle
    /\ ODIdle
    /\ GOIdle
    /\ HSIdle
    /\ nz_fields \in [{"f"} -> FieldSpecs]
    /\ nz_row \in [{"f"} -> RawValues]
    /\ nz_pc = "ready"
    /\ nz_once = EmptyDict
    /\ nz_twice = EmptyDict

\* ------------------------------------------------------ normalizer actions
\* _prep_objects on the raw row
Normalize ==
    /\ nz_pc = "ready"
    /\ nz_once' = _prep_objects(nz_fields, nz_row)
    /\ nz_pc' = IF Raised(nz_once') THEN "error" ELSE "once"
    /\ UNCHANGED <<nz_fields, nz_row, nz_twice>>
    /\ UNCHANGED not_nz

\* _prep_objects on the normalized object
NormalizeAgain ==
    /\ nz_pc = "once"
    /\ nz_twice' = _prep_objects(nz_fields, nz_once)
    /\ nz_pc' = IF Raised(nz_twice') THEN "error" ELSE "twice"
    /\ UNCHANGED <<nz_fields, nz_row, nz_once>>
    /\ UNCHANGED not_nz

NextNormalize ==
    \/ Normalize
    \/ NormalizeAgain

SpecNormalize == InitNormalize /\ [][NextNormalize]_vars

\* ------------------------------------------------------- normalizer claims
\* are two values the same, type for type and value for value
SameValue(a, b) == a[1] = b[1] /\ a[2] = b[2]

\* C20 as stated: normalizing a normalized object gives the same object,
\* value for value and type for type, fields with no declared type included.
C20_NormalizeIdempotent ==
    nz_pc = "twice" =>
        \A field \in DOMAIN nz_once : SameValue(nz_twice[field], nz_once[field])

\* ======================================================= later claims
\* the stored version at position j is left as it is, or it is live and is
\* closed: its _end goes from None to a timestamp and nothing else changes
KeptOrClosed(j) ==
    \/ store'[j] = store[j]
    \/ /\ IsLive(store[j])
       /\ store'[j]["_end"] # NoneVal
       /\ store'[j] = Put(store[j], "_end", store'[j]["_end"])

\* the running step is _save_no_snapshot saving an object that carries the
\* _id of the stored version at position j, which it replaces
ReplacedById(j) ==
    /\ pc = "no_snap"
    /\ idx <= Len(no_snap_of(objects))
    /\ "_id" \in DOMAIN no_snap_of(objects)[idx]
    /\ no_snap_of(objects)[idx]["_id"] = store[j]["_id"]
    /\ store'[j] = no_snap_of(objects)[idx]

\* C21 as stated: no stored version is ever removed, and the only change
\* ever made to a stored version is the closing of a live one.
C21_OnlyClosing ==
    [][/\ Len(store') >= Len(store)
       /\ \A j \in 1..Len(store) : KeptOrClosed(j)]_vars

\* C21 as the code has it: no stored version is ever removed; a stored
\* version changes only by the closing of a live one or, on the
\* no-snapshot path, by being replaced whole by the object that carries
\* its _id.
C21_ClosingOrReplacing ==
    [][/\ Len(store') >= Len(store)
       /\ \A j \in 1..Len(store) : KeptOrClosed(j) \/ ReplacedById(j)]_vars

\* a live version was closed by one call and a version replaced by another
C21_Witness ==
    /\ pc = "done"
    /\ Events("save") # {}
    /\ \E j \in 1..Len(store) : ~IsLive(store[j]) /\ store[j]["_end"] # MaxTime
    /\ Len(store) >= 2

\* the no-snapshot objects of the running call, and those without an _id
NoSnap == no_snap_of(objects)
NoSnapFresh == SelectSeq(NoSnap, LAMBDA o : "_id" \notin DOMAIN o)

StoredIds(cube) == {cube[j]["_id"] : j \in 1..Len(cube)}

\* C22: an object that carries _end goes to the no-snapshot path and not to
\* the snapshot path.  With an _id it replaces the stored document of that
\* _id and nothing else; without, it is inserted as one new document under
\* a fresh _id, and every stored document stays as it is: no version is
\* closed.  The docmap of the snapshot path holds objects without _end only.
C22_EndGoesNoSnapshot ==
    [][/\ (pc = "no_snap" /\ idx <= Len(NoSnap)) =>
             LET obj == NoSnap[idx]
             IN  IF "_id" \in DOMAIN obj
                 THEN /\ Len(store') = Len(store)
                      /\ \E j \in 1..Len(store) :
                            /\ store[j]["_id"] = obj["_id"]
                            /\ store'[j] = obj
                            /\ \A h \in 1..Len(store) : h # j => store'[h] = store[h]
                 ELSE store' = store
       /\ (pc = "no_snap" /\ idx > Len(NoSnap)) =>
             /\ Len(store') = Len(store) + Len(NoSnapFresh)
             /\ SubSeq(store', 1, Len(store)) = store
             /\ \A k \in 1..Len(NoSnapFresh) :
                   LET d == store'[Len(store) + k]
                   IN  /\ Pop(d, "_id") = NoSnapFresh[k]
                       /\ d["_id"] \notin StoredIds(store)
                       /\ \A h \in 1..Len(NoSnapFresh) :
                             h # k => store'[Len(store) + h]["_id"] # d["_id"]
       /\ pc = "snap_find" =>
             /\ \A o \in DOMAIN docmap' :
                   /\ "_end" \notin DOMAIN docmap'[o]
                   /\ InList(to_snap_of(objects), docmap'[o])
             /\ \A j \in 1..Len(objects) :
                   "_end" \notin DOMAIN objects[j] <=> objects[j]["_oid"] \in DOMAIN docmap'
                                                       /\ InList(to_snap_of(objects), objects[j])
       /\ pc \in {"snap_find", "snap_loop"} =>
             \A j \in 1..Len(writes') : writes'[j]["op"] \in {"save", "insert"} => j <= Len(writes)
       /\ pc = "no_snap" =>
             \A j \in 1..Len(writes') : writes'[j]["op"] \in {"save", "insert"}]_vars

\* a batch of an object with _end and one without: a version inserted by
\* the no-snapshot path, another by the snapshot path
C22_Witness ==
    /\ pc = "done"
    /\ Events("insert") # {}
    /\ Events("bulk_insert") # {}
    /\ Len(store0) >= 1

\* a stored document was replaced through its _id
C22_WitnessReplace ==
    /\ pc = "done"
    /\ Events("save") # {}
    /\ \E j \in 1..Len(store) : store[j]["_id"] = 1 /\ store[j]["x"] = 2 /\ store0[j]["x"] = 1

\* ================================================================ hashing
\* jsonhash on objects with list values.  An object is the list of its
\* (key, value) items in the order the dict gives them; a value is
\* <<"int", n>> or <<"list", l>>.  sha1 is taken to be collision free and
\* the repr of a frozenset to depend on its elements only.
\* etl_api.py:85-91, a list: the tuple of the sorted hashes of its elements
RECURSIVE jsonhash_list(_)
jsonhash_list(l) ==
    IF l = << >> THEN << >>
    ELSE LET front == jsonhash_list(SubSeq(l, 1, Len(l) - 1))
             e == l[Len(l)]
             k == Cardinality({i \in 1..Len(front) : front[i] <= e})
         IN  SubSeq(front, 1, k) \o <<e>> \o SubSeq(front, k + 1, Len(front))

\* etl_api.py:72-93 on a value
jsonhash_value(v) == IF v[1] = "list" THEN <<"list", jsonhash_list(v[2])>> ELSE v

\* etl_api.py:76-84, a dict: the frozenset of the (hash of key, hash of value)
jsonhash_items(items) == {<<items[i][1], jsonhash_value(items[i][2])>> : i \in 1..Len(items)}

\* utils.py:294-319: the key-sorted tuple of (key, hash of value), a list
\* hashing as the tuple of the hashes of its elements in list order; keys
\* are compared as text, "tags" before "x"
utils_jsonhash(items) ==
    LET keyed == [k \in {items[i][1] : i \in 1..Len(items)} |->
                     items[CHOOSE i \in 1..Len(items) : items[i][1] = k][2]]
    IN  (IF "tags" \in DOMAIN keyed THEN << <<"tags", keyed["tags"]>> >> ELSE << >>)
        \o (IF "x" \in DOMAIN keyed THEN << <<"x", keyed["x"]>> >> ELSE << >>)

\* ---------------------------------------------------------- hashing inputs
HashLists == UNION {[1..n -> 1..2] : n \in 0..MaxItems}

HashObjects ==
    UNION {{<< <<"x", <<"int", n>>>>, <<"tags", <<"list", l>>>> >>,
            << <<"tags", <<"list", l>>>>, <<"x", <<"int", n>>>> >>,
            << <<"tags", <<"list", l>>>> >>} : n \in 1..2, l \in HashLists}

InitHash ==
    /\ SWIdle
    /\ WKIdle
    /\ ARIdle
    /\ ODIdle
    /\ GOIdle
    /\ NZIdle
    /\ hs_a \in HashObjects
    /\ hs_b \in HashObjects
    /\ hs_hashes = << >>

\* --------------------------------------------------------- hashing actions
\* _prep_object stamps both objects: obj['_hash'] = jsonhash(obj)
\* (etl_api.py:111)
StampHash ==
    /\ hs_hashes = << >>
    /\ hs_hashes' = <<"etl_api", jsonhash_items(hs_a), jsonhash_items(hs_b)>>
    /\ UNCHANGED <<hs_a, hs_b>>
    /\ UNCHANGED not_hs

\* the client library hashes both objects with utils.jsonhash
UtilsHash ==
    /\ hs_hashes = << >>
    /\ hs_hashes' = <<"utils", utils_jsonhash(hs_a), utils_jsonhash(hs_b)>>
    /\ UNCHANGED <<hs_a, hs_b>>
    /\ UNCHANGED not_hs

NextHash ==
    \/ StampHash
    \/ UtilsHash

SpecHash == InitHash /\ [][NextHash]_vars

\* ---------------------------------------------------------- hashing claims
\* the object as a map
AsMap(items) ==
    [k \in {items[i][1] : i \in 1..Len(items)} |->
        items[CHOOSE i \in 1..Len(items) : items[i][1] = k][2]]

HasDistinct(l) == Cardinality(Range(l)) = Len(l)

\* the two objects have the same keys and values but for the order of the
\* elements, all distinct, of the list field
DifferInListOrder ==
    /\ DOMAIN AsMap(hs_a) = DOMAIN AsMap(hs_b)
    /\ \A k \in DOMAIN AsMap(hs_a) \ {"tags"} : AsMap(hs_a)[k] = AsMap(hs_b)[k]
    /\ AsMap(hs_a)["tags"][2] # AsMap(hs_b)["tags"][2]
    /\ Range(AsMap(hs_a)["tags"][2]) = Range(AsMap(hs_b)["tags"][2])
    /\ HasDistinct(AsMap(hs_a)["tags"][2])
    /\ HasDistinct(AsMap(hs_b)["tags"][2])

\* C23 as stated: the jsonhash that stamps _hash tells apart two objects
\* that differ only in the order of the elements of a list, and gives one
\* hash to two objects with the same key-value pairs in different key order.
C23_ListOrderMatters ==
    (hs_hashes # << >> /\ hs_hashes[1] = "etl_api") =>
        /\ DifferInListOrder => hs_hashes[2] # hs_hashes[3]
        /\ AsMap(hs_a) = AsMap(hs_b) => hs_hashes[2] = hs_hashes[3]

\* does the row give a list to a field that is not a container
ListInScalarField(row) ==
    \E field \in DOMAIN row : row[field][1] = "list" /\ ~FetchFields[field].container

\* C24: a semantic error is surfaced at once.  When db, table or _oid is
\* not configured the batch fails before any fetch; when a fetched row
\* gives a list to a non-container field the batch fails on that row, the
\* one successful fetch is not repeated whatever `retries` is; either way
\* the task fails on that batch and hands on no object of it.
C24_SemanticErrorsSurface ==
    \A tn \in Handed :
        LET task == go_tasks[tn[1]]
            b == task.batches[tn[2]]
            semantic == ~go_config.sql_ok \/ ListInScalarField(b.row)
        IN  /\ ~go_config.sql_ok => (b.outcome = "sql_error" /\ b.attempts = 0)
            /\ ListInScalarField(b.row) =>
                  (b.outcome = "value_error" /\ b.attempts = b.fails + 1)
            /\ semantic =>
                  /\ task.status = "failed"
                  /\ tn[2] = Len(task.batches)
                  /\ \A i \in 1..Len(b.batch) : ~InList(task.results, b.batch[i])
                  /\ go_pc # "returned"

\* a row failed normalization at the first attempt with retries to spare,
\* after an earlier batch of the task had been handed on
C24_Witness ==
    /\ go_pc = "raised"
    /\ go_config.retries = MaxRetries
    /\ \E t \in 1..Len(go_tasks) :
          /\ Len(go_tasks[t].batches) = 2
          /\ go_tasks[t].batches[1].outcome = "ok"
          /\ go_tasks[t].batches[2].outcome = "value_error"
          /\ go_tasks[t].batches[2].attempts = 1

\* the configuration lacks db, table or _oid: the first batch failed unfetched
C24_WitnessSql ==
    /\ go_pc = "raised"
    /\ ~go_config.sql_ok
    /\ go_config.retries = MaxRetries
    /\ go_tasks[1].batches[1].outcome = "sql_error"

\* the entries replay processes for the object as the call found it
Filtered == filter_activities(doc0, activities)
FilteredWhens == {Filtered[i][1] : i \in 1..Len(Filtered)}

\* the value a field has once the entry's change is taken back
RevertedValue(val, act) ==
    IF act[2] \in ContainerFields THEN remove_added(val, act[4], FALSE).val \o act[3]
    ELSE act[3]

\* the value of field f once every entry of timestamp w in todo, in the
\* order replay meets them, is taken back
RECURSIVE RevertedAt(_, _, _, _)
RevertedAt(val, f, w, todo) ==
    IF todo = << >> THEN val
    ELSE LET act == Head(todo)
         IN  RevertedAt(IF act[1] = w /\ act[2] = f THEN RevertedValue(val, act) ELSE val,
                        f, w, Tail(todo))

\* every timestamp has one historical version, the one that ends at it,
\* which differs from the next newer version by that timestamp's changes
\* taken back; the stack was never popped while empty
Coalesced(versions) ==
    /\ ar_pc # "raised"
    /\ \A w \in FilteredWhens :
          /\ Cardinality({i \in 1..Len(versions) : versions[i]["_end"] = w}) = 1
          /\ \A i \in 2..Len(versions) :
                versions[i]["_end"] = w =>
                    \A f \in {"status", "tags"} :
                        versions[i][f] = RevertedAt(versions[i - 1][f], f, w,
                                                    sort_activities(Filtered))

PrepObjects ==
    {[_oid |-> 1, x |-> 1],
     [_oid |-> 1, x |-> 2, _start |-> MaxTime],
     [_oid |-> 2, x |-> 1],
     [_oid |-> 1, x |-> 2, _start |-> NoneVal, _mtime |-> MaxTime],
     [x |-> 1],
     [_oid |-> 1, x |-> 2, _start |-> NoneVal],
     [_oid |-> 2, x |-> 2, _start |-> 1, _mtime |-> NoneVal]}

NextPrep ==
    \/ \E n \in 1..MaxBatch :
          /\ saved + n <= MaxObjects
          /\ \E objs \in [1..n -> PrepObjects] : \E mtime \in Mtimes(objs) :
                save_objects(objs, mtime) /\ UNCHANGED <<in_order, prev>>
    \/ save_objects_raise
    \/ SnapFind
    \/ SnapLoop
    \/ SnapInsert
    \/ Return /\ UNCHANGED <<in_order, prev>>

SpecPrep == Init /\ [][NextPrep]_vars

\* the object has no _oid, or the time it would start at is not a number
Invalid(o) ==
    \/ "_oid" \notin DOMAIN o
    \/ IF "_mtime" \in DOMAIN o THEN o["_mtime"] = NoneVal
       ELSE "_start" \in DOMAIN o /\ o["_start"] = NoneVal

HasInvalid(objs) == \E j \in 1..Len(objs) : Invalid(objs[j])

StrictOrder(cube, objs) ==
    /\ \A j \in 1..Len(objs) :
          \A h \in 1..Len(cube) :
              (cube[h]["_oid"] = objs[j]["_oid"] /\ cube[h]["_end"] = NoneVal)
                  => objs[j]["_start"] > cube[h]["_start"]
    /\ \A i, j \in 1..Len(objs) : i # j => objs[i]["_oid"] # objs[j]["_oid"]

\* the snapshot path alone; in_order remembers that every batch so far was
\* in strict order
NextStrict ==
    \/ \E n \in 1..MaxBatch :
          /\ saved + n <= MaxObjects
          /\ \E objs \in [1..n -> SnapObjects] : \E mtime \in Mtimes(objs) :
                /\ save_objects(objs, mtime)
                /\ in_order' = (in_order /\ StrictOrder(store, objects'))
                /\ UNCHANGED prev
    \/ SnapFind
    \/ SnapLoop
    \/ SnapInsert
    \/ Return /\ UNCHANGED <<in_order, prev>>

SpecStrict == Init /\ [][NextStrict]_vars

\* version j of the cube is the next one after version i of the same _oid
NextVersion(cube, V, i, j) ==
    /\ cube[i]["_start"] < cube[j]["_start"]
    /\ \A k \in V : ~(cube[i]["_start"] < cube[k]["_start"]
                      /\ cube[k]["_start"] < cube[j]["_start"])

\* one live version, closed versions of positive length, no two versions
\* starting together, each version ending where the next one starts
StrictTimeline(cube, o) ==
    LET V == VersionsOf(cube, o)
    IN  /\ Cardinality({j \in V : IsLive(cube[j])}) = 1
        /\ \A i \in V : ~IsLive(cube[i]) => cube[i]["_start"] < cube[i]["_end"]
        /\ \A i, j \in V : i # j => cube[i]["_start"] # cube[j]["_start"]
        /\ \A i, j \in V : NextVersion(cube, V, i, j) => cube[i]["_end"] = cube[j]["_start"]

\* C27: from an empty store, after snapshot saves whose batches hold at most
\* one object per _oid, each starting strictly after the live version of its
\* _oid, every _oid has exactly one live version, every closed version has
\* _start < _end, and consecutive versions meet (v_i._end = v_{i+1}._start).
C27_StrictSavesGoodTimeline ==
    (pc \in {"idle", "done"} /\ in_order) =>
        \A o \in StoredOids(store) : StrictTimeline(store, o)

\* two _oids were saved in one batch and one of them was saved again later:
\* it has a closed version followed by its live one, the other a live one
C27_Witness ==
    /\ pc = "idle"
    /\ in_order
    /\ Cardinality(StoredOids(store)) = 2
    /\ \E o \in StoredOids(store) :
          /\ Cardinality(VersionsOf(store, o)) = 2
          /\ \E i, j \in VersionsOf(store, o) :
                /\ NextVersion(store, VersionsOf(store, o), i, j)
                /\ store[i]["_end"] = store[j]["_start"]
                /\ IsLive(store[j])

\* the <<when, field>> pairs of the entries replay finds inconsistent
RECURSIVE inconsistent_at(_, _)
inconsistent_at(stack, todo) ==
    IF todo = << >> THEN {}
    ELSE LET r == import_step(stack, Head(todo))
         IN  (IF r.inconsistent THEN {<<Head(todo)[1], Head(todo)[2]>>} ELSE {})
             \cup inconsistent_at(r.stack, Tail(todo))

CorruptedFields(version) ==
    IF "_corrupted" \in DOMAIN version THEN DOMAIN version["_corrupted"] ELSE {}

\* C28 as stated: a historical version of replay's output carries
\* _corrupted[f] only if an inconsistent entry on field f was processed at
\* that version's own timestamp; nothing is inherited from a newer version.
C28_CorruptedIsOwn ==
    ar_pc = "returned" =>
        \A i \in 2..Len(result) :
            \A f \in CorruptedFields(result[i]) :
                <<result[i]["_end"], f>> \in inconsistent_at(<<doc0>>, sort_activities(Filtered))

\* ======================================================================
\* Container values of the emitted versions
\* ======================================================================
\* the list is in ascending order
Ascending(l) == \A i \in 1..(Len(l) - 1) : l[i] <= l[i + 1]

\* C29 as stated, for replay: in every version replay returns, the current
\* one and the historical ones, each container field is a list sorted
\* ascending.
C29_ContainersSorted ==
    ar_pc = "returned" =>
        \A i \in 1..Len(result) : \A f \in ContainerFields : Ascending(result[i][f])

\* ======================================================================
\* Workers that save what they extract (generic.py get_objects with
\* workers > 1 and flush, etl_api.py _save_and_snapshot)
\* ======================================================================
MaxWorkOids == 3

\* one time_doc of the loop of _save_and_snapshot (etl_api.py:161-185)
snap_step(cube, dm, time_doc) ==
    LET _oid == time_doc["_oid"]
    IN  IF _oid \notin DOMAIN dm THEN [store |-> cube, docmap |-> dm]
        ELSE LET _start == dm[_oid]["_start"]
                 doc == Pop(dm[_oid], "_start")
             IN  IF doc_changed(doc, time_doc)
                 THEN [store |-> update_end(cube, time_doc["_id"], _start),
                       docmap |-> [dm EXCEPT ![_oid] = merge_doc(time_doc, doc, _start)]]
                 ELSE [store |-> cube,
                       docmap |-> [o \in (DOMAIN dm) \ {_oid} |-> dm[o]]]

\* the loop over time_docs
RECURSIVE snap_loop(_, _, _)
snap_loop(cube, dm, tds) ==
    IF tds = << >> THEN [store |-> cube, docmap |-> dm]
    ELSE LET r == snap_step(cube, dm, Head(tds))
         IN  snap_loop(r.store, r.docmap, Tail(tds))

\* the insert after the loop (etl_api.py:187-190)
snap_insert(cube, dm, first_id) ==
    LET docs == stamp_new(docmap_values(dm), first_id)
    IN  [store |-> IF DOMAIN dm # {} THEN _bulk_insert(cube, docs, BulkSize) ELSE cube,
         next_id |-> first_id + Len(docs)]

\* _save_and_snapshot run from its first line to its last with no other
\* writer in between
_save_and_snapshot(cube, first_id, objs) ==
    LET dm == build_docmap(objs)
        l == snap_loop(cube, dm, find_live(cube, DOMAIN dm))
    IN  snap_insert(l.store, l.docmap, first_id)

\* the objects a worker saves for a batch of oids: the current value of
\* each, x cast as an extracted field, stamped at the time of the run
extracted(oids, x, mtime) ==
    [j \in 1..Len(oids) |-> _prep_object([_oid |-> oids[j], x |-> x[oids[j]]], mtime)]

\* the batches one worker goes through (generic.py:56-58)
worker_batches(oids, config) == batch_gen(oids, config.batch_size)

\* one task per batch of worker_batch_size oids (generic.py:393-400)
new_worker(oids, config) ==
    [oids |-> oids, todo |-> worker_batches(oids, config), pc |-> "fetch",
     docmap |-> EmptyDict, time_docs |-> << >>, idx |-> 0]

make_workers(oids, config) ==
    LET batches == batch_gen(oids, config.worker_batch_size)
    IN  [w \in 1..Len(batches) |-> new_worker(batches[w], config)]

\* a cube an earlier run left: the oids of P saved once at time 1 with x = 1
earlier_cube(P) ==
    _save_and_snapshot(<< >>, 1, extracted(SortedSeq(P), [o \in P |-> 1], 1)).store

\* oids as _delta_force returns them (sorted, no duplicates), a value for
\* each, the batch sizes, and the cube an earlier run left
InitWorkers ==
    /\ SWIdle
    /\ ARIdle
    /\ ODIdle
    /\ GOIdle
    /\ NZIdle
    /\ HSIdle
    /\ \E n \in 1..MaxWorkOids :
          \E P \in SUBSET (1..n) :
             wk_in \in [oids : {[i \in 1..n |-> i]},
                        x : [1..n -> {1, 2}],
                        worker_batch_size : 1..MaxBatchSize,
                        batch_size : 1..MaxBatchSize,
                        store : {earlier_cube(P)}]
    /\ wk_store = wk_in.store
    /\ wk_next_id = Len(wk_in.store) + 1
    /\ wk_workers = << >>
    /\ wk_pc = "ready"

\* get_objects hands the batches to the workers (generic.py:386-400)
RunWorkers ==
    /\ wk_pc = "ready"
    /\ wk_workers' = make_workers(wk_in.oids, wk_in)
    /\ wk_pc' = "running"
    /\ UNCHANGED <<wk_in, wk_store, wk_next_id>>
    /\ UNCHANGED not_wk

\* a worker fetches its next batch and its save reaches the find
\* (generic.py:56-58, etl_api.py:156-159)
WorkerFind(w) ==
    /\ wk_pc = "running"
    /\ wk_workers[w].pc = "fetch"
    /\ wk_workers[w].todo # << >>
    /\ LET dm == build_docmap(extracted(Head(wk_workers[w].todo), wk_in.x, MaxTime))
       IN  wk_workers' = [wk_workers EXCEPT ![w].docmap = dm,
                                            ![w].time_docs = find_live(wk_store, DOMAIN dm),
                                            ![w].idx = 1,
                                            ![w].pc = "loop"]
    /\ UNCHANGED <<wk_in, wk_store, wk_next_id, wk_pc>>
    /\ UNCHANGED not_wk

\* one time_doc of the worker's loop (etl_api.py:161-185)
WorkerLoop(w) ==
    /\ wk_pc = "running"
    /\ wk_workers[w].pc = "loop"
    /\ wk_workers[w].idx <= Len(wk_workers[w].time_docs)
    /\ LET r == snap_step(wk_store, wk_workers[w].docmap,
                          wk_workers[w].time_docs[wk_workers[w].idx])
       IN  /\ wk_store' = r.store
           /\ wk_workers' = [wk_workers EXCEPT ![w].docmap = r.docmap,
                                                ![w].idx = @ + 1]
    /\ UNCHANGED <<wk_in, wk_next_id, wk_pc>>
    /\ UNCHANGED not_wk

\* the worker's insert after the loop (etl_api.py:187-190)
WorkerInsert(w) ==
    /\ wk_pc = "running"
    /\ wk_workers[w].pc = "loop"
    /\ wk_workers[w].idx > Len(wk_workers[w].time_docs)
    /\ LET r == snap_insert(wk_store, wk_workers[w].docmap, wk_next_id)
       IN  /\ wk_store' = r.store
           /\ wk_next_id' = r.next_id
    /\ wk_workers' = [wk_workers EXCEPT ![w].todo = Tail(@),
                                        ![w].docmap = EmptyDict,
                                        ![w].time_docs = << >>,
                                        ![w].idx = 0,
                                        ![w].pc = "fetch"]
    /\ UNCHANGED <<wk_in, wk_pc>>
    /\ UNCHANGED not_wk

\* every worker is through: the runner returns (generic.py:395-402)
WorkersReturn ==
    /\ wk_pc = "running"
    /\ \A w \in 1..Len(wk_workers) :
          wk_workers[w].pc = "fetch" /\ wk_workers[w].todo = << >>
    /\ wk_pc' = "done"
    /\ UNCHANGED <<wk_in, wk_store, wk_next_id, wk_workers>>
    /\ UNCHANGED not_wk

NextWorkers ==
    \/ RunWorkers
    \/ \E w \in 1..Len(wk_workers) : WorkerFind(w)
    \/ \E w \in 1..Len(wk_workers) : WorkerLoop(w)
    \/ \E w \in 1..Len(wk_workers) : WorkerInsert(w)
    \/ WorkersReturn

SpecWorkers == InitWorkers /\ [][NextWorkers]_vars

\* ------------------------------------------------------------------ claims
\* the cube after the batches are saved one after another
RECURSIVE save_in_turn(_, _, _)
save_in_turn(cube, first_id, batches) ==
    IF batches = << >> THEN cube
    ELSE LET r == _save_and_snapshot(cube, first_id,
                                     extracted(Head(batches), wk_in.x, MaxTime))
         IN  save_in_turn(r.store, r.next_id, Tail(batches))

\* the batches of the workers, worker after worker
RECURSIVE batches_in_turn(_)
batches_in_turn(workers) ==
    IF workers = << >> THEN << >>
    ELSE worker_batches(Head(workers).oids, wk_in) \o batches_in_turn(Tail(workers))

OneAfterAnother ==
    save_in_turn(wk_in.store, Len(wk_in.store) + 1, batches_in_turn(wk_workers))

\* the document without the _id the store minted for it
Content(d) == [k \in (DOMAIN d) \ {"_id"} |-> d[k]]

Contents(cube) == [j \in 1..Len(cube) |-> Content(cube[j])]

\* the two cubes hold the same documents, each as many times
SameContents(a, b) ==
    /\ Len(a) = Len(b)
    /\ \A i \in 1..Len(a) :
          Cardinality({j \in 1..Len(a) : Content(a[j]) = Content(a[i])})
              = Cardinality({j \in 1..Len(b) : Content(b[j]) = Content(a[i])})

\* C30: the oid sets of different workers are pairwise disjoint, and
\* whatever the interleaving of the workers' finds, closing updates and
\* inserts, the cube ends with the contents it has when the same batches
\* are saved one after another.
C30_WorkersAreIndependent ==
    /\ \A v, w \in 1..Len(wk_workers) :
          v # w => Range(wk_workers[v].oids) \cap Range(wk_workers[w].oids) = {}
    /\ wk_pc = "done" => SameContents(wk_store, OneAfterAnother)

\* two workers ran interleaved: the cube holds the documents in another
\* order than saving in turn leaves them, a version was closed, and the
\* contents are the same
C30_Witness ==
    /\ wk_pc = "done"
    /\ Len(wk_workers) >= 2
    /\ Contents(wk_store) # Contents(OneAfterAnother)
    /\ \E j \in 1..Len(wk_store) : ~IsLive(wk_store[j])
    /\ SameContents(wk_store, OneAfterAnother)

====
